---- MODULE Spec2Model ----
(***************************************************************************)
(* A model of the godi dependency injector (package di): the binding       *)
(* registry, binding.resolve, Injector.fill and the public operations      *)
(* Get/NamedGet, Resolve/NamedResolve, Fill, Call, Singleton, Instance,     *)
(* Reset and SetErrorHandler.  Every goroutine runs the code as a stack of  *)
(* frames, one frame per active call of resolve or fill, so that the       *)
(* per-binding mutex and the heap are shared between goroutines exactly at  *)
(* the statements where the code touches them.                             *)
(***************************************************************************)
EXTENDS Integers, Sequences, FiniteSets, TLC

VARIABLES
    bindings,      \* Injector.bindings: (type, name) -> binding
    errHandler,    \* Injector.errHandler: "nil" or the installed handler
    heap,          \* the objects built so far; an object's reference is its index
    stack,         \* per goroutine: the active calls, outermost first
    instantiated,  \* per goroutine: the map `instantiated` of the running call
    ret,           \* per goroutine: the (instance, err) pair a callee returned
    result,        \* per goroutine: how its last public operation ended
    handled,       \* per goroutine: the handlers its current operation has called
    invoked,       \* per goroutine: the provider calls of its current operation
    returned       \* history: what operations handed out, and the providers that failed

vars == <<bindings, errHandler, heap, stack, instantiated, ret, result,
          handled, invoked, returned>>

-----------------------------------------------------------------------------
(* Bounds of the model *)

\* capacity of the heap: no provider runs and no caller allocates beyond it
MaxObjects == 6

-----------------------------------------------------------------------------
(* Constants of the program *)

Binding_Instance == 0
Binding_Singleton == 1
injectByType == "type"
injectByName == "name"

Nil == 0
NoErr == "nil"

Goroutines == {1, 2}

-----------------------------------------------------------------------------
(* The types the clients declare (injector_test.go) *)

\* reflect.Kind of a type
TypeKind(T) ==
    CASE T \in {"Alice", "Bob", "John", "Robert", "Partner", "TypeA", "TypeB",
                "TypeC", "SomeStruct", "TagApp"} -> "ptr"
      [] T \in {"error", "Shape", "Database"} -> "interface"
      [] T \in {"string", "int"} -> T
      [] T = "[]int" -> "slice"
      [] OTHER -> "struct"

Field(n, t, has, tag) == [name |-> n, type |-> t, hasTag |-> has, tag |-> tag]

\* the fields of the struct a pointer type points to, in declaration order
StructFields(T) ==
    CASE T = "Alice" -> << Field("Bob", "Bob", TRUE, "type"),
                           Field("John", "John", TRUE, "type") >>
      [] T = "Bob" -> << Field("Alice", "Alice", TRUE, "type"),
                         Field("John", "John", TRUE, "type") >>
      [] T = "Partner" -> << Field("Name", "string", FALSE, ""),
                             Field("Robert", "Robert", TRUE, "type") >>
      [] T = "Robert" -> << Field("Dale", "Partner", TRUE, "name"),
                            Field("Peter", "Partner", TRUE, "name") >>
      [] T = "TypeA" -> << Field("b", "TypeB", TRUE, "type") >>
      [] T = "TypeB" -> << Field("c", "TypeC", TRUE, "type") >>
      [] T = "SomeStruct" -> << Field("S", "Shape", TRUE, "type"),
                                Field("D", "Database", TRUE, "type"),
                                Field("C", "Shape", TRUE, "name"),
                                Field("X", "string", FALSE, "") >>
      [] T = "TagApp" -> << Field("S", "Shape", TRUE, "type"),
                            Field("T", "Shape", TRUE, "invalid"),
                            Field("D", "Database", TRUE, "type") >>
      [] OTHER -> << >>

\* the provider functions the clients register: what reflect.TypeOf sees of
\* them (isFunc, numIn, out) and what a call of them may yield:
\*   "obj" a new object, "nil" a nil pointer, "err" (nil, error)
Prov(isFunc, numIn, out, yields) ==
    [isFunc |-> isFunc, numIn |-> numIn, out |-> out, yields |-> yields]

Provider(id) ==
    CASE id = "alice" -> Prov(TRUE, 0, <<"Alice">>, {"obj"})
      [] id = "bob" -> Prov(TRUE, 0, <<"Bob">>, {"obj"})
      [] id = "john" -> Prov(TRUE, 0, <<"John">>, {"obj"})
      [] id = "johnE" -> Prov(TRUE, 0, <<"John", "error">>, {"obj", "nil", "err"})
      [] id = "robert" -> Prov(TRUE, 0, <<"Robert">>, {"obj"})
      [] id = "dale" -> Prov(TRUE, 0, <<"Partner">>, {"obj"})
      [] id = "peter" -> Prov(TRUE, 0, <<"Partner">>, {"obj", "nil"})
      [] id = "circle" -> Prov(TRUE, 0, <<"Shape">>, {"obj"})
      [] id = "mysql" -> Prov(TRUE, 0, <<"Database">>, {"obj"})
      [] id = "typeB" -> Prov(TRUE, 0, <<"TypeB">>, {"obj"})
      [] id = "typeC" -> Prov(TRUE, 0, <<"TypeC">>, {"obj"})
      [] id = "typeCnil" -> Prov(TRUE, 0, <<"TypeC">>, {"nil"})
      [] id = "typeCerr" -> Prov(TRUE, 0, <<"TypeC", "error">>, {"obj", "err", "objerr"})
      [] id = "typeCstr" -> Prov(TRUE, 0, <<"TypeC", "string">>, {"obj"})
      [] id = "noOut" -> Prov(TRUE, 0, << >>, {})
      [] id = "valueC" -> Prov(TRUE, 0, <<"ValueC">>, {"obj"})
      [] id = "withArg" -> Prov(TRUE, 1, <<"TypeC">>, {"obj"})
      [] id = "threeOut" -> Prov(TRUE, 0, <<"Shape", "Database", "error">>, {"nil"})
      [] OTHER -> Prov(FALSE, 0, << >>, {})

\* reflect.TypeOf(b.provider): a func type is its parameter and result types
providerType(id) == <<Provider(id).numIn, Provider(id).out>>

\* the values the clients pass to Call: functions with their parameter types,
\* and a value that is no function ("STRING!")
Func(isFunc, params) == [isFunc |-> isFunc, params |-> params]

Function(id) ==
    CASE id = "withAlice" -> Func(TRUE, <<"Alice">>)
      [] id = "withJohns" -> Func(TRUE, <<"John", "John">>)
      [] id = "withTypeC" -> Func(TRUE, <<"TypeC">>)
      [] id = "withTypeB_C" -> Func(TRUE, <<"TypeB", "TypeC">>)
      [] OTHER -> Func(FALSE, << >>)


-----------------------------------------------------------------------------
(* Frames and small helpers *)

Key(T, name) == <<T, name>>

\* one active call: fn is the function, pc the statement it stands at
Frame(fn, pc, key, obj, i, params, args) ==
    [fn |-> fn, pc |-> pc, key |-> key, obj |-> obj, i |-> i,
     params |-> params, args |-> args]

NoKey == Key("", "")
OpFrame(fn, pc, key) == Frame(fn, pc, key, Nil, 0, << >>, << >>)
ResolveFrame(key) == Frame("resolve", "ctx", key, Nil, 0, << >>, << >>)
FillFrame(obj) == Frame("fill", "field", NoKey, obj, 1, << >>, << >>)

Top(g) == stack[g][Len(stack[g])]
Callers(g) == SubSeq(stack[g], 1, Len(stack[g]) - 1)
Idle(g) == stack[g] = << >>
AllIdle == \A g \in Goroutines : Idle(g)

Ret(val, err) == [val |-> val, err |-> err]
Result(op, status, key, vals, err) ==
    [op |-> op, status |-> status, key |-> key, vals |-> vals, err |-> err]
NoResult == Result("", "", NoKey, << >>, NoErr)

\* a struct freshly allocated: every field holds its zero value
NewObject(T, by) ==
    [type |-> T, by |-> by, f |-> [i \in 1..Len(StructFields(T)) |-> Nil]]

\* a fill that resolves every tagged field by its type alone
FieldKey_ByType(f) == Key(f.type, "")

\* the registry key a tagged field is resolved under (fill, lines 632-646)
FieldKey(f) == Key(f.type, IF f.tag = injectByName THEN f.name ELSE "")

\* the key of the map `instantiated` a binding is recorded under (lines 44-60)
CtxKey(b, name) == <<providerType(b.provider), name>>

\* an unwinding that takes the bindings whose mutex it held out of the map
Unlocked_Removes(bs, g) == [k \in {j \in DOMAIN bs : bs[j].mu # g} |-> bs[k]]

\* a return or a panic that runs no deferred Unlock
Unlocked_Kept(bs, g) == bs

\* every mutex goroutine g holds is released: the deferred b.mu.Unlock() of
\* each of its resolve calls runs while a return or a panic unwinds them
Unlocked(bs, g) ==
    [k \in DOMAIN bs |-> IF bs[k].mu = g THEN [bs[k] EXCEPT !.mu = 0] ELSE bs[k]]

\* history: the (key, object) pairs handed out once, those handed out again,
\* and the (key, error) pairs of the bindings whose provider failed
NoneReturned == [once |-> {}, again |-> {}, failed |-> {}, orphaned |-> {}]
Record(deliv) ==
    [returned EXCEPT !.once = @ \cup deliv,
                     !.again = @ \cup (deliv \cap returned.once)]
\* the instances held by the bindings of `keys`, which lose their binding
Orphans(keys) ==
    {<< k, bindings[k].instance >> :
        k \in {j \in keys \cap DOMAIN bindings : bindings[j].instance # Nil}}
Forget(keys) ==
    [once |-> {d \in returned.once : d[1] \notin keys},
     again |-> {d \in returned.again : d[1] \notin keys},
     failed |-> returned.failed,
     orphaned |-> returned.orphaned \cup Orphans(keys)]
Lost(key, err) ==
    [returned EXCEPT !.failed =
        @ \cup {<<key, err, bindings[key].btype, bindings[key].provider>>}]

\* a public operation may start when the heap has room for all it can build
Room(n) == Len(heap) + n <= MaxObjects
\* the maps `instantiated` keys of the bindings that hold no instance: one
\* call tree runs the provider of each at most once
NumBound ==
    Cardinality({CtxKey(bindings[k], k[2]) :
                    k \in {j \in DOMAIN bindings : bindings[j].instance = Nil}})


-----------------------------------------------------------------------------
(* The end and the start of a public operation *)

\* a public operation of goroutine g ends: it leaves result, the count of
\* handler calls it made, and the registry (its mutexes released)
Finish(g, status, vals, err, h, bs, deliv) ==
    /\ stack' = [stack EXCEPT ![g] = << >>]
    /\ result' = [result EXCEPT ![g] =
           Result(stack[g][1].fn, status, stack[g][1].key, vals, err)]
    /\ handled' = [handled EXCEPT ![g] = h]
    /\ bindings' = bs
    /\ returned' = IF status = "ok" THEN Record(deliv) ELSE returned

\* a public operation that ends in its first statement
Refuse(g, op, key, status, err, h) ==
    /\ result' = [result EXCEPT ![g] = Result(op, status, key, << >>, err)]
    /\ handled' = [handled EXCEPT ![g] = h]
    /\ UNCHANGED <<bindings, errHandler, heap, stack, instantiated, ret,
                   invoked, returned>>

\* a map `instantiated` that outlives the call it was made for
newInstantiated_Kept(old) == old

\* lines 251, 397, 568, 583: map[reflect.Type]map[string]interface{}{}
newInstantiated(old) == << >>

\* a public operation starts its first call with a fresh map `instantiated`
Begin(g, frames, h) ==
    /\ stack' = [stack EXCEPT ![g] = frames]
    /\ instantiated' = [instantiated EXCEPT ![g] = newInstantiated(@)]
    /\ invoked' = [invoked EXCEPT ![g] = << >>]
    /\ ret' = [ret EXCEPT ![g] = Ret(Nil, NoErr)]
    /\ result' = [result EXCEPT ![g] = NoResult]
    /\ handled' = [handled EXCEPT ![g] = h]
    /\ UNCHANGED <<bindings, errHandler, returned>>

\* a callee returns (val, err) to the call below it
Return(g, val, err) ==
    /\ stack' = [stack EXCEPT ![g] = Callers(g)]
    /\ ret' = [ret EXCEPT ![g] = Ret(val, err)]

\* the top frame of g moves on
Goto(g, fr) ==
    stack' = [stack EXCEPT ![g] = Append(Callers(g), fr)]

\* handleError (lines 151-160): the handler is called, or the error panics
HandlerPanics == errHandler = "nil"
\* a handleError that keeps calling the handler installed first
AfterHandler_First(h) == IF HandlerPanics THEN h ELSE Append(h, "h1")

AfterHandler(h) == IF HandlerPanics THEN h ELSE Append(h, errHandler)

\* a middleware that calls the handler itself
errorMiddleWare_Reports(h) == AfterHandler(h)

\* errorMiddleWare (lines 213-230) logs the error and returns it; the handler
\* is not called
errorMiddleWare(h) == h

\* Get stands in its deferred function, a panic recovered, before the call
\* of handleError (global.go, lines 85-86); err is the error that went before
RecoverFrame(key, err) == Frame("Get", "recover", key, Nil, 0, << err >>, << >>)

\* a panic unwinds every call of g, each deferred Unlock running.  Get and
\* NamedGet recover it (global.go, lines 84-88); the other operations let it
\* reach their caller
Recovers(g) == stack[g][1].fn = "Get"
Recover(g, err, h) ==
    /\ stack' = [stack EXCEPT ![g] = << RecoverFrame(stack[g][1].key, err) >>]
    /\ handled' = [handled EXCEPT ![g] = h]
    /\ bindings' = Unlocked(bindings, g)
    /\ UNCHANGED <<result, returned>>
Panic(g, err, h) ==
    IF Recovers(g)
    THEN Recover(g, err, h)
    ELSE Finish(g, "panic", << >>, err, h, Unlocked(bindings, g), {})

\* reflect's Set, Call and the type assertion of Get accept a value only of
\* the declared type
Assignable(val, T) == val # Nil /\ heap[val].type = T

-----------------------------------------------------------------------------
(* Registration: bind (lines 261-308) behind Singleton, NamedSingleton,      *)
(* Instance and NamedInstance (lines 410-465), Reset, SetErrorHandler        *)

\* a bind without the test of line 280
bindError_SkipsKind(id) ==
    LET p == Provider(id) IN
    IF ~p.isFunc THEN "InvalidProviderSignature"
    ELSE IF p.numIn # 0 THEN "InvalidProviderSignature"
    ELSE IF Len(p.out) # 1 /\ Len(p.out) # 2 THEN "InvalidProviderSignature"
    ELSE NoErr

\* lines 267-282: the four tests of the provider's type, in order
bindError(id) ==
    LET p == Provider(id) IN
    IF ~p.isFunc THEN "InvalidProviderSignature"
    ELSE IF p.numIn # 0 THEN "InvalidProviderSignature"
    ELSE IF Len(p.out) # 1 /\ Len(p.out) # 2 THEN "InvalidProviderSignature"
    ELSE IF TypeKind(p.out[1]) # "ptr" /\ TypeKind(p.out[1]) # "interface"
         THEN "InvalidProviderSignature"
    ELSE NoErr

\* a bind that calls the provider of a Singleton and keeps the result
NewBinding_Eager(id, singleton) ==
    [provider |-> id, mu |-> 0, instance |-> IF singleton THEN Len(heap) + 1 ELSE Nil,
     btype |-> IF singleton THEN Binding_Singleton ELSE Binding_Instance]

\* lines 298, 303: &binding{provider: provider, ...}, the instance left nil
NewBinding(id, singleton) ==
    [provider |-> id, mu |-> 0, instance |-> Nil,
     btype |-> IF singleton THEN Binding_Singleton ELSE Binding_Instance]

\* a bind that stores a binding for the first return type only
bindKeys_First(id, name) == {Key(Provider(id).out[1], name)}

\* lines 284-285: providerType.Out(i) for every i below NumOut()
bindKeys(id, name) == {Key(Provider(id).out[i], name) : i \in 1..Len(Provider(id).out)}

\* a registration that hands the instance of the binding it replaces to
\* the new binding
bind_KeepsInstance(id, name, singleton) ==
    [k \in DOMAIN bindings \cup bindKeys(id, name) |->
        IF k \in bindKeys(id, name)
        THEN IF k \in DOMAIN bindings
             THEN [NewBinding(id, singleton) EXCEPT !.instance = bindings[k].instance]
             ELSE NewBinding(id, singleton)
        ELSE bindings[k]]

\* lines 284-305: injector.bindings[providerType.Out(i)][name] = &binding{...}
bind(id, name, singleton) ==
    [k \in DOMAIN bindings \cup bindKeys(id, name) |->
        IF k \in bindKeys(id, name) THEN NewBinding(id, singleton) ELSE bindings[k]]

\* registration while a resolution runs is excluded: the README makes it the
\* caller's obligation
Register(g, id, name, singleton) ==
    /\ AllIdle
    /\ IF bindError(id) = NoErr
       THEN /\ bindings' = bind(id, name, singleton)
            /\ returned' = Forget(bindKeys(id, name))
            /\ result' = [result EXCEPT ![g] =
                   Result("bind", "ok", Key(Provider(id).out[1], name), << >>, NoErr)]
            /\ handled' = [handled EXCEPT ![g] = << >>]
            /\ UNCHANGED <<errHandler, heap, stack, instantiated, ret, invoked>>
       ELSE Refuse(g, "bind", NoKey, IF HandlerPanics THEN "panic" ELSE "error",
                   bindError(id), AfterHandler(errorMiddleWare(<< >>)))

NamedSingleton(g, name, id) == Register(g, id, name, TRUE)

NamedInstance(g, name, id) == Register(g, id, name, FALSE)

\* a Reset that deletes nothing
cleared_Nothing == bindings

\* lines 473-475: delete(injector.bindings, k) for every k
cleared == << >>

Reset(g) ==
    /\ AllIdle
    /\ bindings' = cleared
    /\ returned' = [NoneReturned EXCEPT
                        !.orphaned = returned.orphaned \cup Orphans(DOMAIN bindings)]
    /\ result' = [result EXCEPT ![g] = Result("Reset", "ok", NoKey, << >>, NoErr)]
    /\ handled' = [handled EXCEPT ![g] = << >>]
    /\ UNCHANGED <<errHandler, heap, stack, instantiated, ret, invoked>>

SetErrorHandler(h) ==
    /\ errHandler' = h
    /\ UNCHANGED <<bindings, heap, stack, instantiated, ret, result, handled,
                   invoked, returned>>


-----------------------------------------------------------------------------
(* binding.resolve (lines 42-111) and Injector.invoke (lines 312-381) *)

\* the error invoke returns when the provider yields y: "obj" a new object,
\* "nil" a nil pointer, "err" (nil, error), "objerr" (a new object, error).
\* A second result that is not an error makes the type assertion of line
\* 350 panic.
\* an invoke without the nil tests of lines 337 and 369
invoke_NilAccepted(id, y) ==
    IF Len(Provider(id).out) = 1 THEN NoErr
    ELSE IF Len(Provider(id).out) = 2
    THEN IF Provider(id).out[2] # "error" THEN "InvokePanic"
         ELSE IF y \in {"err", "objerr"} THEN "ProviderReturnedError"
         ELSE NoErr
    ELSE "InvalidProviderSignature"

\* an invoke that returns the first result although the second is an error
invoke_KeepsValue(id, y) ==
    IF Len(Provider(id).out) = 1
    THEN IF y # "obj" THEN "NilProviderResult" ELSE NoErr
    ELSE IF Len(Provider(id).out) = 2
    THEN IF Provider(id).out[2] # "error" THEN "InvokePanic"
         ELSE IF y = "err" THEN "ProviderReturnedError"
         ELSE IF y = "nil" THEN "NilProviderResult" ELSE NoErr
    ELSE "InvalidProviderSignature"

invoke(id, y) ==
    IF Len(Provider(id).out) = 1
    THEN IF y # "obj" THEN "NilProviderResult" ELSE NoErr
    ELSE IF Len(Provider(id).out) = 2
    THEN IF Provider(id).out[2] # "error" THEN "InvokePanic"
         ELSE IF y \in {"err", "objerr"} THEN "ProviderReturnedError"
         ELSE IF y # "obj" THEN "NilProviderResult" ELSE NoErr
    ELSE "InvalidProviderSignature"

\* a resolve that never finds what its call tree made: a cycle never closes
instantiatedAlready_Never(g, ck) == FALSE

\* a resolve that finds only the instances still being wired, as a set of
\* visited bindings would: a dependency met twice is then built twice
instantiatedAlready_WhileWiring(g, ck) ==
    /\ ck \in DOMAIN instantiated[g]
    /\ \E i \in 1..Len(stack[g]) :
          /\ stack[g][i].fn = "resolve" /\ stack[g][i].pc = "filled"
          /\ stack[g][i].obj = instantiated[g][ck]

\* lines 54-63: an instance this call tree already made is reused
instantiatedAlready(g, ck) == ck \in DOMAIN instantiated[g]

\* a resolve that takes the path of the singletons for every binding
afterCtx_Lock(b) == "lock"

\* lines 65, 99: what resolve does after the lookup in `instantiated` missed
afterCtx(b) == IF b.btype = Binding_Singleton THEN "lock" ELSE "invoke"

ResolveCtx(g) ==
    /\ ~Idle(g) /\ Top(g).fn = "resolve" /\ Top(g).pc = "ctx"
    /\ LET fr == Top(g)
           b == bindings[fr.key]
           ck == CtxKey(b, fr.key[2])
       IN  IF instantiatedAlready(g, ck)
           THEN Return(g, instantiated[g][ck], NoErr)
           ELSE Goto(g, [fr EXCEPT !.pc = afterCtx(b)]) /\ UNCHANGED ret
    /\ UNCHANGED <<bindings, errHandler, heap, instantiated, result, handled,
                   invoked, returned>>

\* a mutex that excludes nobody: two goroutines may then build one singleton
acquirable_Always(b) == TRUE

\* line 73: b.mu.Lock() goes on only while no goroutine holds the mutex
acquirable(b) == b.mu = 0

\* a resolve that calls the provider although the binding holds an instance
ResolveLock_Rebuilds(g) ==
    /\ ~Idle(g) /\ Top(g).fn = "resolve" /\ Top(g).pc = "lock"
    /\ acquirable(bindings[Top(g).key])
    /\ bindings' = [bindings EXCEPT ![Top(g).key].mu = g]
    /\ Goto(g, [Top(g) EXCEPT !.pc = "invoke"])
    /\ UNCHANGED <<ret, errHandler, heap, instantiated, result, handled,
                   invoked, returned>>

\* lines 73-75 and 96: b.mu.Lock(), and the instance already stored is
\* returned (the deferred Unlock runs with the return)
ResolveLock(g) ==
    /\ ~Idle(g) /\ Top(g).fn = "resolve" /\ Top(g).pc = "lock"
    /\ acquirable(bindings[Top(g).key])
    /\ LET fr == Top(g)
           b == bindings[fr.key]
       IN  IF b.instance # Nil
           THEN Return(g, b.instance, NoErr) /\ UNCHANGED bindings
           ELSE /\ bindings' = [bindings EXCEPT ![fr.key].mu = g]
                /\ Goto(g, [fr EXCEPT !.pc = "invoke"])
                /\ UNCHANGED ret
    /\ UNCHANGED <<errHandler, heap, instantiated, result, handled, invoked,
                   returned>>

\* history: the provider of the binding on top of g's stack was called, for
\* the i-th map `instantiated` of the operation; y is what it yielded, obj
\* what it built in heap h and err what invoke made of it
Invocation(g, h, y, err) ==
    [key |-> Top(g).key, ctx |-> stack[g][1].i, yield |-> y,
     obj |-> IF Len(h) > Len(heap) THEN Len(h) ELSE Nil, err |-> err]

\* an instance that is not entered in `instantiated` before it is filled
remember_Not(m, ck, o) == m

\* a map `instantiated` that holds the last instance only
remember_LastOnly(m, ck, o) == (ck :> o)

\* lines 86 and 104: instances[name] = instance, before the instance is filled
remember(m, ck, o) == (ck :> o) @@ m

\* an instance that is handed out as the provider left it
wire_Skipped(o) == << >>

\* lines 88 and 106: injector.fill(instance, instantiated), the nested call
wire(o) == << FillFrame(o) >>

\* lines 81-88 and 99-106: the provider is called; its instance is stored
\* in `instantiated` and then filled
ResolveInvoke(g) ==
    /\ ~Idle(g) /\ Top(g).fn = "resolve" /\ Top(g).pc = "invoke"
    /\ LET fr == Top(g)
           b == bindings[fr.key]
           ck == CtxKey(b, fr.key[2])
           o == Len(heap) + 1
       IN  \E y \in Provider(b.provider).yields :
             /\ IF invoke(b.provider, y) = "InvokePanic"
                THEN /\ Panic(g, "panic", handled[g])
                     /\ UNCHANGED <<heap, instantiated, ret>>
                ELSE IF invoke(b.provider, y) = NoErr
                THEN /\ Len(heap) < MaxObjects
                     /\ heap' = Append(heap, NewObject(Provider(b.provider).out[1],
                                                       b.provider))
                     /\ instantiated' = [instantiated EXCEPT ![g] = remember(@, ck, o)]
                     /\ stack' = [stack EXCEPT ![g] =
                            Callers(g) \o << [fr EXCEPT !.pc = "filled", !.obj = o] >>
                                       \o wire(o)]
                     /\ UNCHANGED <<bindings, ret, result, handled, returned>>
                ELSE /\ y = "objerr" => Len(heap) < MaxObjects
                     /\ heap' = IF y = "objerr"
                                THEN Append(heap, NewObject(Provider(b.provider).out[1],
                                                            b.provider))
                                ELSE heap
                     /\ Return(g, Nil, invoke(b.provider, y))
                     /\ bindings' = [bindings EXCEPT ![fr.key].mu = 0]
                     /\ returned' = Lost(fr.key, invoke(b.provider, y))
                     /\ handled' = [handled EXCEPT ![g] = errorMiddleWare(@)]
                     /\ UNCHANGED <<instantiated, result>>
             /\ invoked' = [invoked EXCEPT ![g] =
                    Append(@, Invocation(g, heap', y, invoke(b.provider, y)))]
    /\ UNCHANGED errHandler

\* a binding that forgets what it built: singleton identity cannot hold of it
stored_Forgetful(b, o) == [b EXCEPT !.mu = 0]

\* a binding that stores its instance whatever its kind
stored_AnyKind(b, o) == [b EXCEPT !.instance = o, !.mu = 0]

\* lines 89-96 and 107-110: after fill, a singleton stores its instance
\* (line 93 stands on the path of line 65; the path of line 99 stores nothing)
stored(b, o) ==
    IF afterCtx(b) = "lock" THEN [b EXCEPT !.instance = o, !.mu = 0] ELSE b

ResolveFilled(g) ==
    /\ ~Idle(g) /\ Top(g).fn = "resolve" /\ Top(g).pc = "filled"
    /\ LET fr == Top(g)
           b == bindings[fr.key]
       IN  IF ret[g].err # NoErr
           THEN /\ Return(g, Nil, ret[g].err)
                /\ bindings' = [bindings EXCEPT ![fr.key].mu = 0]
           ELSE /\ Return(g, fr.obj, NoErr)
                /\ bindings' = [bindings EXCEPT ![fr.key] = stored(b, fr.obj)]
    /\ UNCHANGED <<errHandler, heap, instantiated, result, handled, invoked,
                   returned>>

-----------------------------------------------------------------------------
(* Injector.fill (lines 590-669), the loop over the fields *)

\* a registry that answers a lookup by type alone when the name is unknown
lookup_AnyName(k) ==
    IF k \in DOMAIN bindings THEN {k}
    ELSE {j \in DOMAIN bindings : j[1] = k[1]}

\* lines 246, 392, 556, 646: concrete, exist := injector.bindings[type][name]
\* (the keys found: the one asked for, or none)
lookup(k) == {k} \cap DOMAIN bindings

\* a fill that takes any tag for a tag by type
validTag_Any(t) == TRUE

\* lines 632-644: t == injectByType, t == injectByName, or the tag is invalid
validTag(t) == t \in {injectByType, injectByName}

\* lines 621-650: the next field; a tagged one is looked up and resolved
FillField(g) ==
    /\ ~Idle(g) /\ Top(g).fn = "fill" /\ Top(g).pc = "field"
    /\ LET fr == Top(g)
           fields == StructFields(heap[fr.obj].type)
       IN  IF fr.i > Len(fields)
           THEN Return(g, Nil, NoErr)
           ELSE IF ~fields[fr.i].hasTag
           THEN Goto(g, [fr EXCEPT !.i = fr.i + 1]) /\ UNCHANGED ret
           ELSE IF ~validTag(fields[fr.i].tag)
           THEN Return(g, Nil, "InvalidTag")
           ELSE IF lookup(FieldKey(fields[fr.i])) = {}
           THEN Return(g, Nil, "UnresolvedField")
           ELSE /\ \E k \in lookup(FieldKey(fields[fr.i])) :
                     stack' = [stack EXCEPT ![g] =
                         Callers(g) \o << [fr EXCEPT !.pc = "set"],
                                          ResolveFrame(k) >>]
                /\ UNCHANGED ret
    /\ UNCHANGED <<bindings, errHandler, heap, instantiated, result, handled,
                   invoked, returned>>

\* lines 651-664: an error of resolve goes to handleError and the loop goes
\* on to Set the field; reflect panics when the value is nil or of another type
FillSet(g) ==
    /\ ~Idle(g) /\ Top(g).fn = "fill" /\ Top(g).pc = "set"
    /\ LET fr == Top(g)
           f == StructFields(heap[fr.obj].type)[fr.i]
       IN  IF ret[g].err # NoErr
           THEN /\ Panic(g, ret[g].err, AfterHandler(handled[g]))
                /\ UNCHANGED <<heap, ret>>
           ELSE IF ~Assignable(ret[g].val, f.type)
           THEN /\ Panic(g, "panic", handled[g])
                /\ UNCHANGED <<heap, ret>>
           ELSE /\ heap' = [heap EXCEPT ![fr.obj].f[fr.i] = ret[g].val]
                /\ Goto(g, [fr EXCEPT !.pc = "field", !.i = fr.i + 1])
                /\ UNCHANGED <<bindings, ret, result, handled, returned>>
    /\ UNCHANGED <<errHandler, instantiated, invoked>>


-----------------------------------------------------------------------------
(* Get and NamedGet (global.go, lines 83-110) over Injector.get (243-258) *)

\* reflect.PtrTo: the type of a pointer to a T.  The pointer to the struct
\* "struct TypeC" is the type that bears the struct's name, "TypeC"
PtrTo(T) ==
    IF Len(T) > 7 /\ SubSeq(T, 1, 7) = "struct " THEN SubSeq(T, 8, Len(T))
    ELSE "*" \o T

\* an error that handleError receives in the operation's own body ends it:
\* the handler returns and the operation returns, or the error panics
\* a failure that still hands the caller what resolve returned
Fail_Assigns(g, err, h) ==
    Finish(g, IF HandlerPanics THEN "panic" ELSE "error", << ret[g].val >>, err,
           AfterHandler(h), Unlocked(bindings, g), {})

Fail(g, err, h) ==
    Finish(g, IF HandlerPanics THEN "panic" ELSE "error", << >>, err,
           AfterHandler(h), Unlocked(bindings, g), {})

\* global.go, lines 90-92 (104-106), and for a type of the right kind the
\* lookup of get (injector.go, lines 245-249): each handleError is a step of
\* its own, so of a type of another kind the lookup comes in the next step
NamedGet(g, T, name) ==
    /\ Idle(g) /\ Room(NumBound)
    /\ LET badKind == TypeKind(T) # "interface" /\ TypeKind(T) # "ptr"
       IN  IF badKind
           \* handleError panics, or calls the handler and Get goes on
           THEN IF HandlerPanics
                THEN Begin(g, << RecoverFrame(Key(T, name), "InvalidTarget") >>,
                           << >>)
                ELSE Begin(g, << OpFrame("Get", "get", Key(T, name)) >>,
                           AfterHandler(<< >>))
           ELSE IF lookup(Key(T, name)) = {}
           \* get reports NotFound, which panics, or returns nil, and the
           \* type assertion panics on nil
           THEN Begin(g, << RecoverFrame(Key(T, name), "NotFound") >>,
                      AfterHandler(<< >>))
           ELSE \E k \in lookup(Key(T, name)) :
                     Begin(g, << OpFrame("Get", "ret", Key(T, name)),
                                 ResolveFrame(k) >>, << >>)
    /\ UNCHANGED heap

\* injector.go, lines 245-251: the lookup of get, after the handler was
\* called for the kind of the type
GetLookup(g) ==
    /\ ~Idle(g) /\ Top(g).fn = "Get" /\ Top(g).pc = "get"
    /\ IF lookup(Top(g).key) = {}
       THEN Recover(g, "NotFound", AfterHandler(handled[g]))
       ELSE /\ \E k \in lookup(Top(g).key) :
                 stack' = [stack EXCEPT ![g] =
                     << [Top(g) EXCEPT !.pc = "ret"], ResolveFrame(k) >>]
            /\ UNCHANGED <<bindings, result, handled, returned>>
    /\ UNCHANGED <<errHandler, heap, instantiated, ret, invoked>>

\* injector.go, lines 252-257, and the type assertion of global.go, line 94
GetDone(g) ==
    /\ ~Idle(g) /\ Top(g).fn = "Get" /\ Top(g).pc = "ret"
    /\ IF ret[g].err # NoErr
       \* get reports the error, which panics, or returns nil, and the type
       \* assertion panics on nil
       THEN Panic(g, ret[g].err, AfterHandler(handled[g]))
       ELSE IF ~Assignable(ret[g].val, Top(g).key[1])
       THEN Panic(g, "panic", handled[g])
       ELSE Finish(g, "ok", << ret[g].val >>, NoErr, handled[g], bindings,
                   {<< Top(g).key, ret[g].val >>})
    /\ UNCHANGED <<errHandler, heap, instantiated, ret, invoked>>

\* global.go, lines 84-88 (99-103): the deferred function has recovered a
\* panic and calls handleError, which calls the handler, and Get returns the
\* zero value, or panics
GetRecover(g) ==
    /\ ~Idle(g) /\ Top(g).fn = "Get" /\ Top(g).pc = "recover"
    /\ Finish(g, IF HandlerPanics THEN "panic" ELSE "error", << >>,
              Top(g).params[1], AfterHandler(handled[g]), bindings, {})
    /\ UNCHANGED <<errHandler, heap, instantiated, ret, invoked>>

-----------------------------------------------------------------------------
(* Resolve and NamedResolve (lines 511-575) over Injector.resolve (544-575)  *)

\* what Resolve is given: the address &v of a variable of type T, or the
\* variable v itself (nil, when T is an interface or a pointer)
Ref(T) == [byRef |-> TRUE, T |-> T]
Val(T) == [byRef |-> FALSE, T |-> T]

\* reflect.TypeOf(abstraction) and its Elem(): a pointer type bears the name
\* of its struct ("TypeC" is *TypeC), the struct itself is "struct TypeC"
receiverType(a) == IF a.byRef THEN PtrTo(a.T) ELSE a.T
elem(a) == IF a.byRef THEN a.T ELSE "struct " \o a.T

\* lines 545-556: a nil interface has no type; the argument must be a
\* pointer, to a struct, an interface or a pointer
invalidReceiver(a) ==
    IF a.byRef THEN TypeKind(a.T) \notin {"struct", "interface", "ptr"}
    ELSE TypeKind(a.T) # "ptr"

\* a resolve that does not look for the argument's own type
secondLookup_Skipped(a, name) == FALSE

\* line 560: concrete, exist = injector.bindings[receiverType][name]
secondLookup(a, name) == Key(receiverType(a), name) \in DOMAIN bindings

\* the error resolve returns before it calls binding.resolve
resolveError(a, name) ==
    IF invalidReceiver(a) THEN "InvalidTarget"
    ELSE IF lookup(Key(elem(a), name)) # {} THEN NoErr
    ELSE IF secondLookup(a, name) THEN "PassedByValueNotReference"
    ELSE "NotFound"

NamedResolveOf(g, a, name) ==
    /\ Idle(g) /\ Room(NumBound)
    /\ IF resolveError(a, name) # NoErr
       THEN Refuse(g, "Resolve", Key(elem(a), name),
                   IF HandlerPanics THEN "panic" ELSE "error",
                   resolveError(a, name), AfterHandler(errorMiddleWare(<< >>)))
       ELSE /\ \E k \in lookup(Key(elem(a), name)) :
                 Begin(g, << OpFrame("Resolve", "ret", Key(elem(a), name)),
                             ResolveFrame(k) >>, << >>)
            /\ UNCHANGED heap

\* Resolve(&v), NamedResolve(&v, name) for a variable v of type T
NamedResolve(g, T, name) == NamedResolveOf(g, Ref(T), name)

ResolveDone(g) ==
    /\ ~Idle(g) /\ Top(g).fn = "Resolve"
    /\ IF ret[g].err # NoErr
       THEN Fail(g, ret[g].err, handled[g])
       ELSE IF ~Assignable(ret[g].val, Top(g).key[1])
       THEN Panic(g, "panic", handled[g])
       ELSE Finish(g, "ok", << ret[g].val >>, NoErr, handled[g], bindings,
                   {<< Top(g).key, ret[g].val >>})
    /\ UNCHANGED <<errHandler, heap, instantiated, ret, invoked>>

-----------------------------------------------------------------------------
(* Fill (lines 578-588) over the head of Injector.fill (lines 590-614)      *)

\* what Fill is given: `ptrs` pointers around a value `of` a struct (named by
\* its pointer type), an int or a slice, or around nothing ("nil": a nil
\* interface when ptrs = 0, a nil pointer otherwise)
Target(ptrs, of) == [ptrs |-> ptrs, of |-> of]

\* reflect.Kind of the value at the end of the pointers
ofKind(of) ==
    CASE of = "nil" -> "invalid"
      [] of \in {"int", "string", "[]int"} -> TypeKind(of)
      [] OTHER -> "struct"

maxUnwrapAttempts == 4

\* lines 603-609: value.Elem() while the value is a pointer, four times at most
RECURSIVE unwrap(_, _)
unwrap(a, i) ==
    IF i = 0 \/ a.ptrs = 0 THEN a
    ELSE unwrap(Target(a.ptrs - 1, a.of), i - 1)

unwrapped(a) == unwrap(a, maxUnwrapAttempts)

\* lines 591-614: how fill ends before its loop. A nil interface has no
\* type; of a type that is no pointer line 596 takes Elem(), which panics
\* unless the type is an array, chan, map or slice; of a nil pointer the
\* unwrapped value is invalid and value.Type() in line 613 panics
fillError(a) ==
    IF a.ptrs = 0 /\ a.of = "nil" THEN "InvalidFillTarget"
    ELSE IF a.ptrs = 0
    THEN IF ofKind(a.of) = "slice" THEN "InvalidFillTarget" ELSE "panic"
    ELSE IF unwrapped(a).ptrs > 0 THEN "InvalidFillTarget"
    ELSE IF ofKind(a.of) = "invalid" THEN "panic"
    ELSE IF ofKind(a.of) # "struct" THEN "InvalidFillTarget"
    ELSE NoErr

FillOf(g, a) ==
    /\ Idle(g) /\ Room(NumBound + 1)
    /\ IF fillError(a) = "panic"
       THEN Refuse(g, "Fill", Key(a.of, ""), "panic", "panic", << >>)
       ELSE IF fillError(a) # NoErr
       THEN Refuse(g, "Fill", Key(a.of, ""),
                   IF HandlerPanics THEN "panic" ELSE "error",
                   fillError(a), AfterHandler(errorMiddleWare(<< >>)))
       ELSE /\ heap' = Append(heap, NewObject(a.of, "caller"))
            /\ Begin(g, << Frame("Fill", "ret", Key(a.of, ""), Len(heap) + 1, 0,
                                 << >>, << >>),
                           FillFrame(Len(heap) + 1) >>, << >>)

\* Fill(&v) for a new struct v of the type T points to
Fill(g, T) == FillOf(g, Target(1, T))

\* what a filled struct received: the value of each tagged field, by its key
Filled(o) ==
    {<< FieldKey(StructFields(heap[o].type)[i]), heap[o].f[i] >> :
        i \in {j \in 1..Len(heap[o].f) : StructFields(heap[o].type)[j].hasTag}}

FillDone(g) ==
    /\ ~Idle(g) /\ Top(g).fn = "Fill"
    /\ IF ret[g].err # NoErr
       THEN Fail(g, ret[g].err, handled[g])
       ELSE Finish(g, "ok", << Top(g).obj >>, NoErr, handled[g], bindings,
                   Filled(Top(g).obj))
    /\ UNCHANGED <<errHandler, heap, instantiated, ret, invoked>>

-----------------------------------------------------------------------------
(* Call (lines 480-508) over Injector.arguments (lines 384-405); the         *)
(* argument is the value Function(f)                                         *)

\* lines 491-498: a value that is no function is an error
Call(g, f) ==
    /\ Idle(g) /\ Room(NumBound * Len(Function(f).params))
    /\ IF ~Function(f).isFunc
       THEN Refuse(g, "Call", NoKey, IF HandlerPanics THEN "panic" ELSE "error",
                   "InvalidCallReceiver", AfterHandler(errorMiddleWare(<< >>)))
       ELSE /\ Begin(g, << Frame("Call", "arg", NoKey, Nil, 1,
                                 Function(f).params, << >>) >>, << >>)
            /\ UNCHANGED heap

\* arguments that are looked up under a name
argumentName_X == "x"

\* line 392: injector.bindings[abstraction][""]
argumentName == ""

\* lines 389-397: the next parameter is looked up under the name "" and
\* resolved with a map `instantiated` of its own; after the last, arguments
\* returns to call
CallArg(g) ==
    /\ ~Idle(g) /\ Top(g).fn = "Call" /\ Top(g).pc = "arg"
    /\ LET fr == Top(g) IN
       IF fr.i > Len(fr.params)
       THEN /\ Goto(g, [fr EXCEPT !.pc = "invoke"])
            /\ UNCHANGED <<bindings, instantiated, result, handled, invoked,
                           returned>>
       ELSE IF lookup(Key(fr.params[fr.i], argumentName)) = {}
       THEN /\ Fail(g, "NotFound", errorMiddleWare(handled[g]))
            /\ UNCHANGED <<instantiated, invoked>>
       ELSE /\ \E k \in lookup(Key(fr.params[fr.i], argumentName)) :
                 stack' = [stack EXCEPT ![g] =
                     << [fr EXCEPT !.pc = "argret"], ResolveFrame(k) >>]
            /\ instantiated' = [instantiated EXCEPT ![g] = newInstantiated(@)]
            /\ UNCHANGED <<bindings, result, handled, invoked, returned>>
    /\ UNCHANGED <<errHandler, heap, ret>>

\* an argument list that is kept although a parameter failed to resolve
argumentFailed_Ignored(err) == FALSE

\* line 398: if err != nil
argumentFailed(err) == err # NoErr

\* lines 398-401: the error of resolve ends arguments and call, and Call
\* hands it to handleError; otherwise the instance is the next argument
CallArgDone(g) ==
    /\ ~Idle(g) /\ Top(g).fn = "Call" /\ Top(g).pc = "argret"
    /\ LET fr == Top(g) IN
       IF argumentFailed(ret[g].err)
       THEN Fail(g, ret[g].err, handled[g])
       ELSE /\ Goto(g, [fr EXCEPT !.pc = "arg", !.i = fr.i + 1,
                                  !.args = Append(fr.args, ret[g].val)])
            /\ UNCHANGED <<bindings, result, handled, returned>>
    /\ UNCHANGED <<errHandler, heap, instantiated, ret, invoked>>

\* line 505: reflect.ValueOf(function).Call(arguments) calls the function
\* once, and panics on an argument that is not of the parameter's type
CallInvoke(g) ==
    /\ ~Idle(g) /\ Top(g).fn = "Call" /\ Top(g).pc = "invoke"
    /\ LET fr == Top(g) IN
       IF \E j \in 1..Len(fr.params) : ~Assignable(fr.args[j], fr.params[j])
       THEN Panic(g, "panic", handled[g])
       ELSE Finish(g, "ok", fr.args, NoErr, handled[g], bindings,
                   {<< Key(fr.params[j], ""), fr.args[j] >> : j \in 1..Len(fr.params)})
    /\ UNCHANGED <<errHandler, heap, instantiated, ret, invoked>>

-----------------------------------------------------------------------------
(* SetErrorHandler and handleError, statement by statement (lines 143-160),  *)
(* with the RWMutex injector.mu.  What the mutex holds follows from where    *)
(* the goroutines stand                                                      *)

\* the read locks goroutine g holds: its calls of handleError past RLock
RLocks(g) ==
    Cardinality({i \in 1..Len(stack[g]) :
        stack[g][i].fn = "handleError" /\ stack[g][i].pc # "rlock"})

\* the goroutines inside injector.mu.Lock(): a pending or holding writer
\* keeps every new RLock waiting
Writers ==
    {g \in Goroutines : \E i \in 1..Len(stack[g]) :
        stack[g][i].fn = "SetErrorHandler" /\ stack[g][i].pc = "wait"}

\* a call of SetErrorHandler(h), by the client or by a handler
SetErrorHandlerFrame(h) == OpFrame("SetErrorHandler", "lock", Key(h, ""))

\* a call of Call("STRING!"): call returns InvalidCallReceiver (492-497) and
\* Call hands it to handleError (lines 484-488)
CallFailsFrames == << OpFrame("Call", "ret", NoKey),
                      OpFrame("handleError", "rlock", Key("", "")) >>

\* the client calls SetErrorHandler(h)
SetErrorHandlerBegin(g, h) ==
    /\ Idle(g)
    /\ Begin(g, << SetErrorHandlerFrame(h) >>, << >>)
    /\ UNCHANGED heap

\* the client calls Call("STRING!")
CallFails(g) ==
    /\ Idle(g)
    /\ Begin(g, CallFailsFrames, << >>)
    /\ UNCHANGED heap

\* line 145: injector.mu.Lock() excludes the other writers, then waits for
\* the readers to leave
SetErrorHandlerLock(g) ==
    /\ ~Idle(g) /\ Top(g).fn = "SetErrorHandler" /\ Top(g).pc = "lock"
    /\ Writers = {}
    /\ Goto(g, [Top(g) EXCEPT !.pc = "wait"])
    /\ UNCHANGED <<bindings, errHandler, heap, instantiated, ret, result, handled,
                   invoked, returned>>

\* lines 145-148: no reader is left; the handler is stored, the deferred
\* Unlock runs and SetErrorHandler returns
SetErrorHandlerSet(g) ==
    /\ ~Idle(g) /\ Top(g).fn = "SetErrorHandler" /\ Top(g).pc = "wait"
    /\ \A r \in Goroutines : RLocks(r) = 0
    /\ errHandler' = Top(g).key[1]
    /\ IF Len(stack[g]) = 1
       THEN /\ Finish(g, "ok", << >>, NoErr, handled[g], bindings, {})
       ELSE /\ stack' = [stack EXCEPT ![g] = Callers(g)]
            /\ UNCHANGED <<bindings, result, handled, returned>>
    /\ UNCHANGED <<heap, instantiated, ret, invoked>>

\* line 152: injector.mu.RLock() waits while a writer holds or awaits the
\* mutex; then the handler is read (line 155)
HandleErrorRLock(g) ==
    /\ ~Idle(g) /\ Top(g).fn = "handleError" /\ Top(g).pc = "rlock"
    /\ Writers = {}
    /\ Goto(g, [Top(g) EXCEPT !.pc = "call", !.key = Key(errHandler, "")])
    /\ UNCHANGED <<bindings, errHandler, heap, instantiated, ret, result, handled,
                   invoked, returned>>

\* lines 155-159: the handler runs, or the error panics.  The handler "h1"
\* returns; "hSet" calls SetErrorHandler("h1"); "hCall", when it is not itself
\* called from a handler, calls Call("STRING!")
HandleErrorCall(g) ==
    /\ ~Idle(g) /\ Top(g).fn = "handleError" /\ Top(g).pc = "call"
    /\ LET h == Top(g).key[1]
           after == [Top(g) EXCEPT !.pc = "runlock"]
       IN  IF h = "nil"
           THEN Panic(g, "InvalidCallReceiver", handled[g])
           ELSE /\ handled' = [handled EXCEPT ![g] = Append(@, h)]
                /\ stack' = [stack EXCEPT ![g] =
                       Callers(g) \o << after >> \o
                       (IF h = "hSet" THEN << SetErrorHandlerFrame("h1") >>
                        ELSE IF h = "hCall" /\ RLocks(g) = 1 THEN CallFailsFrames
                        ELSE << >>)]
                /\ UNCHANGED <<bindings, result, returned>>
    /\ UNCHANGED <<errHandler, heap, instantiated, ret, invoked>>

\* line 153 (deferred) and lines 486-488: RUnlock, handleError returns and
\* Call returns
HandleErrorRUnlock(g) ==
    /\ ~Idle(g) /\ Top(g).fn = "handleError" /\ Top(g).pc = "runlock"
    /\ IF Len(stack[g]) = 2
       THEN Finish(g, "error", << >>, "InvalidCallReceiver", handled[g],
                   bindings, {})
       ELSE /\ stack' = [stack EXCEPT ![g] = SubSeq(stack[g], 1, Len(stack[g]) - 2)]
            /\ UNCHANGED <<bindings, result, handled, returned>>
    /\ UNCHANGED <<errHandler, heap, instantiated, ret, invoked>>

-----------------------------------------------------------------------------
(* The specifications *)

Init ==
    /\ bindings = << >>
    /\ errHandler = "nil"
    /\ heap = << >>
    /\ stack = [g \in Goroutines |-> << >>]
    /\ instantiated = [g \in Goroutines |-> << >>]
    /\ ret = [g \in Goroutines |-> Ret(Nil, NoErr)]
    /\ result = [g \in Goroutines |-> NoResult]
    /\ handled = [g \in Goroutines |-> << >>]
    /\ invoked = [g \in Goroutines |-> << >>]
    /\ returned = NoneReturned

\* one statement of binding.resolve or Injector.fill
Resolving(g) ==
    \/ ResolveCtx(g)
    \/ ResolveLock(g)
    \/ ResolveInvoke(g)
    \/ ResolveFilled(g)
    \/ FillField(g)
    \/ FillSet(g)

\* one statement of the call goroutine g is in
Step(g) ==
    \/ CallInvoke(g)
    \/ Resolving(g)
    \/ GetLookup(g)
    \/ GetDone(g)
    \/ GetRecover(g)
    \/ ResolveDone(g)
    \/ FillDone(g)
    \/ CallArg(g)
    \/ CallArgDone(g)

\* providers are registered at startup, before anything is resolved (README,
\* "Thread safety")
Startup == heap = << >>

\* Spec: one goroutine and the types Alice, Bob and John
Regs == {<<"alice", "">>, <<"bob", "">>, <<"john", "">>}
Gets == {Key("Alice", ""), Key("Bob", ""), Key("John", "")}
Calls == {"withAlice", "withJohns"}

Next ==
    \/ Startup /\ \E r \in Regs : NamedSingleton(1, r[2], r[1])
    \/ Startup /\ \E r \in Regs : NamedInstance(1, r[2], r[1])
    \/ Startup /\ Reset(1)
    \/ SetErrorHandler("h1")
    \/ \E k \in Gets \cup {Key("struct Alice", "")} : NamedGet(1, k[1], k[2])
    \/ \E k \in Gets : NamedResolve(1, k[1], k[2])
    \/ Fill(1, "Alice")
    \/ \E f \in Calls : Call(1, f)
    \/ Step(1)

Spec == Init /\ [][Next]_vars

\* SpecNamed: one goroutine and the types Robert and Partner, bound by name
NamedRegs == {<<"robert", "">>, <<"dale", "Dale">>, <<"peter", "Peter">>}
NamedGets == {Key("Robert", ""), Key("Partner", ""), Key("Partner", "Dale"),
              Key("Partner", "Peter")}

NextNamed ==
    \/ Startup /\ \E r \in NamedRegs : NamedSingleton(1, r[2], r[1])
    \/ Startup /\ \E r \in NamedRegs : NamedInstance(1, r[2], r[1])
    \/ SetErrorHandler("h1")
    \/ \E k \in NamedGets : NamedGet(1, k[1], k[2])
    \/ Fill(1, "Robert")
    \/ Resolving(1)
    \/ GetDone(1)
    \/ GetRecover(1)
    \/ FillDone(1)

SpecNamed == Init /\ [][NextNamed]_vars

\* SpecConc: two goroutines resolve on a registry fixed at startup
ConcGets == {Key("Alice", ""), Key("Bob", "")}

NextConc ==
    \/ Startup /\ \E r \in Regs : NamedSingleton(1, r[2], r[1])
    \/ Startup /\ \E r \in Regs : NamedInstance(1, r[2], r[1])
    \/ \E g \in Goroutines : \E k \in ConcGets : NamedGet(g, k[1], k[2])
    \/ \E g \in Goroutines : Resolving(g)
    \/ \E g \in Goroutines : GetDone(g)
    \/ \E g \in Goroutines : GetRecover(g)

SpecConc == Init /\ [][NextConc]_vars

\* SpecBind: registrations that bind refuses, next to ones it accepts
BindRegs == {<<"typeC", "">>, <<"typeCstr", "">>, <<"noOut", "">>, <<"valueC", "">>,
             <<"withArg", "">>, <<"threeOut", "">>, <<"STRING!", "">>}
BindGets == {Key("TypeC", ""), Key("ValueC", ""), Key("string", "")}

NextBind ==
    \/ \E r \in BindRegs : NamedSingleton(1, r[2], r[1])
    \/ \E r \in BindRegs : NamedInstance(1, r[2], r[1])
    \/ Reset(1)
    \/ SetErrorHandler("h1")
    \/ \E k \in BindGets : NamedGet(1, k[1], k[2])
    \/ GetLookup(1)
    \/ ResolveCtx(1)
    \/ ResolveLock(1)
    \/ ResolveInvoke(1)
    \/ ResolveFilled(1)
    \/ FillField(1)
    \/ GetDone(1)
    \/ GetRecover(1)

SpecBind == Init /\ [][NextBind]_vars

\* SpecErr: providers that fail, bindings that are replaced after they were
\* resolved, and two error handlers; an operation starts while fewer than
\* ErrObjects objects exist
ErrObjects == 2
ErrRegs == {<<"typeC", "">>, <<"typeCnil", "">>, <<"typeCerr", "">>, <<"noOut", "">>}
ErrCalls == {"withTypeC", "STRING!"}

NextErr ==
    \/ \E r \in ErrRegs : NamedSingleton(1, r[2], r[1])
    \/ \E r \in ErrRegs : NamedInstance(1, r[2], r[1])
    \/ Reset(1)
    \/ AllIdle /\ \E h \in {"h1", "h2"} : SetErrorHandler(h)
    \/ Len(heap) < ErrObjects /\ NamedGet(1, "TypeC", "")
    \/ Len(heap) < ErrObjects /\ \E f \in ErrCalls : Call(1, f)
    \/ ResolveCtx(1)
    \/ ResolveLock(1)
    \/ ResolveInvoke(1)
    \/ ResolveFilled(1)
    \/ FillField(1)
    \/ GetDone(1)
    \/ GetRecover(1)
    \/ CallArg(1)
    \/ CallArgDone(1)
    \/ CallInvoke(1)

SpecErr == Init /\ [][NextErr]_vars

\* SpecWire: a provider that returns an error, next to a struct with a field
\* of its type
WireRegs == {<<"typeC", "">>, <<"typeCerr", "">>, <<"typeB", "">>}
WireGets == {Key("TypeC", ""), Key("TypeB", "")}

NextWire ==
    \/ \E r \in WireRegs : NamedSingleton(1, r[2], r[1])
    \/ \E r \in WireRegs : NamedInstance(1, r[2], r[1])
    \/ AllIdle /\ SetErrorHandler("h1")
    \/ Len(heap) < ErrObjects /\ \E k \in WireGets : NamedGet(1, k[1], k[2])
    \/ Len(heap) < ErrObjects /\ Fill(1, "TypeB")
    \/ Resolving(1)
    \/ GetDone(1)
    \/ GetRecover(1)
    \/ FillDone(1)

SpecWire == Init /\ [][NextWire]_vars

\* SpecResolve: Resolve given the address of a variable, the variable itself,
\* a nil interface and the address of a string, on a registry fixed at startup
ResolveRegs == {<<"typeC", "">>, <<"typeCnil", "">>, <<"typeCerr", "">>}
ResolveArgs == {Ref("TypeC"), Val("TypeC"), Ref("struct TypeC"), Val("Shape"),
                Ref("string")}

NextResolve ==
    \/ Startup /\ \E r \in ResolveRegs : NamedSingleton(1, r[2], r[1])
    \/ Startup /\ \E r \in ResolveRegs : NamedInstance(1, r[2], r[1])
    \/ SetErrorHandler("h1")
    \/ \E a \in ResolveArgs : NamedResolveOf(1, a, "")
    \/ ResolveCtx(1)
    \/ ResolveLock(1)
    \/ ResolveInvoke(1)
    \/ ResolveFilled(1)
    \/ FillField(1)
    \/ ResolveDone(1)

SpecResolve == Init /\ [][NextResolve]_vars

\* SpecCall: functions called on a registry fixed at startup, where TypeC is
\* bound with and without a name
\* Fill alone, of every shape of argument, over a registry that is set up
\* before the first Fill (injector_test.go, lines 733-954)
FillRegs == {<<"circle", "">>, <<"circle", "C">>, <<"mysql", "">>,
             <<"typeC", "">>}
FillArgs == {Target(1, "SomeStruct"), Target(1, "TypeB"), Target(2, "TypeB"),
             Target(1, "TagApp"), Target(1, "TypeC"), Target(0, "nil"),
             Target(0, "TypeB"), Target(0, "int"), Target(0, "[]int"),
             Target(1, "int"), Target(1, "nil"), Target(5, "TypeB")}

NextFill ==
    \/ Startup /\ \E r \in FillRegs : NamedSingleton(1, r[2], r[1])
    \/ Startup /\ \E r \in FillRegs : NamedInstance(1, r[2], r[1])
    \/ AllIdle /\ SetErrorHandler("h1")
    \/ Len(heap) < ErrObjects /\ \E a \in FillArgs : FillOf(1, a)
    \/ ResolveCtx(1)
    \/ ResolveLock(1)
    \/ ResolveInvoke(1)
    \/ ResolveFilled(1)
    \/ FillField(1)
    \/ FillSet(1)
    \/ FillDone(1)

SpecFill == Init /\ [][NextFill]_vars

\* two goroutines that set the handler and fail, over an empty registry
NextSink ==
    \/ \E g \in Goroutines : \E h \in {"h1", "hSet", "hCall"} :
          SetErrorHandlerBegin(g, h)
    \/ \E g \in Goroutines : CallFails(g)
    \/ \E g \in Goroutines : SetErrorHandlerLock(g)
    \/ \E g \in Goroutines : SetErrorHandlerSet(g)
    \/ \E g \in Goroutines : HandleErrorRLock(g)
    \/ \E g \in Goroutines : HandleErrorCall(g)
    \/ \E g \in Goroutines : HandleErrorRUnlock(g)

SpecSink == Init /\ [][NextSink]_vars

CallRegs == {<<"typeC", "">>, <<"typeCerr", "x">>, <<"typeB", "">>}
CallCalls == {"withTypeC", "withTypeB_C"}

NextCall ==
    \/ Startup /\ \E r \in CallRegs : NamedSingleton(1, r[2], r[1])
    \/ Startup /\ \E r \in CallRegs : NamedInstance(1, r[2], r[1])
    \/ SetErrorHandler("h1")
    \/ \E f \in CallCalls : Call(1, f)
    \/ Resolving(1)
    \/ CallArg(1)
    \/ CallArgDone(1)
    \/ CallInvoke(1)

SpecCall == Init /\ [][NextCall]_vars

\* SpecFair: Spec, where the goroutine that is inside an operation goes on
\* running: Go runs a goroutine that is not blocked
SpecFair == Spec /\ WF_vars(Step(1))


-----------------------------------------------------------------------------
(* What the properties speak of *)

IsSingleton(k) == k \in DOMAIN bindings /\ bindings[k].btype = Binding_Singleton
IsInstance(k) == k \in DOMAIN bindings /\ bindings[k].btype = Binding_Instance

\* goroutine g's last public operation returned without an error
Done(g) == Idle(g) /\ result[g].status = "ok"

\* goroutine g's last public operation was a Get or a Resolve that returned
\* the value of its key
Got(g) == Done(g) /\ result[g].op \in {"Get", "Resolve"}

\* the struct goroutine g's Fill was given, if it is or was in a Fill
FillTarget(g) ==
    IF ~Idle(g) THEN (IF stack[g][1].fn = "Fill" THEN {stack[g][1].obj} ELSE {})
    ELSE IF result[g].op = "Fill" /\ result[g].vals # << >>
    THEN {result[g].vals[1]} ELSE {}

\* the objects the operation of g built under its c-th map `instantiated`
BuiltIn(g, c) ==
    {invoked[g][i].obj : i \in {j \in 1..Len(invoked[g]) :
        invoked[g][j].ctx = c /\ invoked[g][j].err = NoErr}}
Built(g) == UNION {BuiltIn(g, c) : c \in 0..MaxObjects}

TaggedFields(o) ==
    {i \in 1..Len(heap[o].f) : StructFields(heap[o].type)[i].hasTag}

\* how far the cyclic fields of the tests are followed (alice.Bob.Alice.Bob.Alice)
Depth == 5

\* the object reached from o through n first tagged fields, Nil if one is unset
RECURSIVE Walk(_, _)
Walk(o, n) ==
    IF n = 0 \/ o = Nil \/ TaggedFields(o) = {} THEN o
    ELSE Walk(heap[o].f[CHOOSE i \in TaggedFields(o) :
                          \A j \in TaggedFields(o) : i <= j], n - 1)

-----------------------------------------------------------------------------
(* C1 *)

\* C1: Singleton identity.  While a Singleton binding stays registered, every
\* successful operation that resolves its key (Get, Resolve, a parameter of
\* Call, a tagged field of the struct given to Fill) hands out one and the
\* same object, the one the binding holds.
C1_SingletonIdentity ==
    \A d \in returned.once :
        IsSingleton(d[1]) =>
            /\ d[2] = bindings[d[1]].instance
            /\ \A e \in returned.once : e[1] = d[1] => e[2] = d[2]

\* a Fill has just received, in a tagged field, a singleton that an earlier
\* operation had been handed already
C1_Witness ==
    /\ Done(1) /\ result[1].op = "Fill"
    /\ \E d \in returned.again :
          IsSingleton(d[1]) /\ d \in Filled(result[1].vals[1])

-----------------------------------------------------------------------------
(* C2, C3 *)

\* the objects the provider bound at key k has built
Made(k) == {o \in 1..Len(heap) : heap[o].by = bindings[k].provider}

\* the objects some goroutine is wiring for key k (between lines 86 and 93)
InWiring(k) ==
    {stack[g][i].obj : <<g, i>> \in
        {p \in Goroutines \X (1..MaxObjects + 2) :
            /\ p[2] <= Len(stack[p[1]])
            /\ stack[p[1]][p[2]].fn = "resolve"
            /\ stack[p[1]][p[2]].pc = "filled"
            /\ stack[p[1]][p[2]].key = k}}

\* goroutine g waits in b.mu.Lock() for the mutex of key k
WaitsFor(g, k) ==
    /\ ~Idle(g) /\ Top(g).fn = "resolve" /\ Top(g).pc = "lock" /\ Top(g).key = k
    /\ bindings[k].mu \notin {0, g}

\* C2: concurrent creation of a Singleton.  Of the objects the provider of a
\* Singleton binding has built, at most one is cached or being wired at any
\* time, every other one having been given up by a resolution that failed;
\* so while no resolution of the binding fails its provider runs at most once
\* in total, and two goroutines that got the binding's key hold one reference.
C2_SingletonCreatedOnce ==
    /\ \A k \in DOMAIN bindings :
          IsSingleton(k) =>
              Cardinality({o \in Made(k) :
                  o = bindings[k].instance \/ o \in InWiring(k)}) <= 1
    /\ \A g1, g2 \in Goroutines :
          /\ Got(g1) /\ Got(g2)
          /\ result[g1].key = result[g2].key
          /\ IsSingleton(result[g1].key)
          => result[g1].vals = result[g2].vals

\* both goroutines asked for the same Singleton for the first time: one is
\* wiring the instance it built, the other waits for the binding's mutex
C2_Witness ==
    \E k \in DOMAIN bindings :
        /\ IsSingleton(k) /\ bindings[k].instance = Nil
        /\ stack[1] # << >> /\ stack[1][1].key = k
        /\ stack[2] # << >> /\ stack[2][1].key = k
        /\ InWiring(k) # {}
        /\ WaitsFor(1, k) \/ WaitsFor(2, k)

\* C3: thread safety of cyclic singletons.  No two goroutines ever wait for
\* each other's Singleton mutex, each holding the one the other wants
\* (such a state is never left: neither top-level resolution returns).
C3_NoDeadlock ==
    ~ \E k1, k2 \in DOMAIN bindings :
        /\ k1 # k2
        /\ bindings[k1].mu = 1 /\ WaitsFor(1, k2)
        /\ bindings[k2].mu = 2 /\ WaitsFor(2, k1)

-----------------------------------------------------------------------------
(* C4, C5, C6 *)

\* the number of provider calls one operation of g can need: one for each
\* binding, in each of its maps `instantiated` (Call makes one per parameter)
Budget(g) ==
    Cardinality(DOMAIN bindings) *
        (IF stack[g][1].fn = "Call" THEN Len(stack[g][1].params) ELSE 1)

\* C4: cycle termination.  Whatever the kinds (Singleton or Instance) under
\* which the mutually referential Alice and Bob are bound, a top-level
\* operation of a single goroutine comes to its end, and before that it has
\* called no more providers than there are bindings for each of its maps.
C4_CycleTerminates ==
    /\ (~Idle(1)) ~> Idle(1)
    /\ [](~Idle(1) => Len(invoked[1]) <= Budget(1))

\* Get has returned an Alice built in this call with a Bob built in this
\* call, both bound as Instance, each built once
C4_Witness ==
    /\ Got(1) /\ result[1].key = Key("Alice", "")
    /\ IsInstance(Key("Alice", "")) /\ IsInstance(Key("Bob", ""))
    /\ {"Alice", "Bob"} \subseteq {heap[o].type : o \in Built(1)}

\* goroutine g resolves a key for which a resolve further down its stack is
\* wiring an instance
Reentrant(g) ==
    /\ ~Idle(g) /\ Top(g).fn = "resolve" /\ Top(g).pc = "ctx"
    /\ \E i \in 1..(Len(stack[g]) - 1) :
          /\ stack[g][i].fn = "resolve" /\ stack[g][i].pc = "filled"
          /\ stack[g][i].key = Top(g).key

\* the instance that resolve is wiring
Wiring(g) ==
    stack[g][CHOOSE i \in 1..(Len(stack[g]) - 1) :
                /\ stack[g][i].fn = "resolve" /\ stack[g][i].pc = "filled"
                /\ stack[g][i].key = Top(g).key].obj

\* C5: cycle aliasing.  The re-entrant resolution of a key returns the very
\* instance being wired for it; and when an operation that built an Alice and
\* a Bob under one map `instantiated` has returned, alice.Bob is that Bob,
\* bob.Alice is that Alice, and alice.Bob.Alice... is non-nil down to Depth.
C5_CycleAliasing ==
    /\ [][\A g \in Goroutines :
            Reentrant(g) /\ stack'[g] # stack[g]
                => stack'[g] = Callers(g) /\ ret'[g] = Ret(Wiring(g), NoErr)]_vars
    /\ [](\A g \in Goroutines : Done(g) =>
            \A c \in 0..MaxObjects : \A a, b \in BuiltIn(g, c) :
                heap[a].type = "Alice" /\ heap[b].type = "Bob" =>
                    /\ heap[a].f[1] = b /\ heap[b].f[1] = a
                    /\ \A n \in 1..Depth : Walk(a, n) \in {a, b})

\* Resolve has returned an Alice that holds a Bob built in the same call, to
\* which Depth steps from that Alice lead
C5_Witness ==
    /\ Done(1) /\ result[1].op = "Resolve" /\ result[1].key = Key("Alice", "")
    /\ \E b \in Built(1) :
          /\ heap[b].type = "Bob"
          /\ heap[result[1].vals[1]].f[1] = b
          /\ heap[b].f[1] = result[1].vals[1]
          /\ Walk(result[1].vals[1], Depth) = b

\* C6: transitive wiring.  When an operation has returned without an error,
\* every tagged field of every object built during it, and of the struct given
\* to Fill, holds a value.
C6_TransitivelyWired ==
    \A g \in Goroutines : Done(g) =>
        \A o \in Built(g) \cup FillTarget(g) :
            \A i \in TaggedFields(o) : heap[o].f[i] # Nil

\* Fill has returned and an object two levels below the struct it was given
\* was built and wired in that call
C6_Witness ==
    /\ Done(1) /\ result[1].op = "Fill"
    /\ \E o \in Built(1), p \in Built(1) :
          /\ o \in {d[2] : d \in Filled(result[1].vals[1])}
          /\ TaggedFields(o) # {}
          /\ p \in {heap[o].f[i] : i \in TaggedFields(o)}
          /\ p \notin {d[2] : d \in Filled(result[1].vals[1])}
          /\ TaggedFields(p) # {}

-----------------------------------------------------------------------------
(* C8, C9 *)

\* C8: instance distinctness across calls.  No object of an Instance binding
\* is handed out by two operations, and the Get or Resolve that returned one
\* called the provider for it.
C8_InstanceDistinct ==
    /\ \A d \in returned.again : ~IsInstance(d[1])
    /\ \A g \in Goroutines :
          Got(g) /\ IsInstance(result[g].key) =>
              \E i \in 1..Len(invoked[g]) :
                  /\ invoked[g][i].key = result[g].key
                  /\ invoked[g][i].obj = result[g].vals[1]

\* two operations were handed different objects for one Instance key
C8_Witness ==
    \E d \in returned.once, e \in returned.once :
        /\ d[1] = e[1] /\ d[2] # e[2] /\ IsInstance(d[1])
        /\ Got(1) /\ result[1].key = d[1] /\ result[1].vals[1] = d[2]

\* the objects wired under the c-th map `instantiated` of g's operation
WiredIn(g, c) == BuiltIn(g, c) \cup (IF c = 0 THEN FillTarget(g) ELSE {})

\* C9: instance identity within a call.  Under one map `instantiated` the
\* provider of an Instance binding is called at most once, and all the tagged
\* fields wired for that binding hold the one object.
C9_InstanceSharedInCall ==
    \A g \in Goroutines :
        /\ \A i, j \in 1..Len(invoked[g]) :
              /\ i # j /\ invoked[g][i].ctx = invoked[g][j].ctx
              /\ IsInstance(invoked[g][i].key)
              => invoked[g][i].key # invoked[g][j].key
        /\ \A c \in 0..MaxObjects : \A o, p \in WiredIn(g, c) :
              \A i \in TaggedFields(o), j \in TaggedFields(p) :
                  /\ IsInstance(FieldKey(StructFields(heap[o].type)[i]))
                  /\ FieldKey(StructFields(heap[o].type)[i])
                         = FieldKey(StructFields(heap[p].type)[j])
                  /\ heap[o].f[i] # Nil /\ heap[p].f[j] # Nil
                  => heap[o].f[i] = heap[p].f[j]

\* one call built an Alice and a Bob, and both hold the John of the Instance
\* binding that this call built once
C9_Witness ==
    /\ Done(1) /\ IsInstance(Key("John", ""))
    /\ \E a \in Built(1), b \in Built(1) :
          /\ heap[a].type = "Alice" /\ heap[b].type = "Bob"
          /\ heap[a].f[2] = heap[b].f[2]
          /\ heap[a].f[2] \in Built(1)

-----------------------------------------------------------------------------
(* C7, C10 *)

\* every tagged field of every bound type has a binding
Closed ==
    \A k \in DOMAIN bindings :
        \A i \in 1..Len(StructFields(k[1])) :
            StructFields(k[1])[i].hasTag
                => FieldKey(StructFields(k[1])[i]) \in DOMAIN bindings

\* C7: cyclic Singleton fields.  With a binding for every tagged field, when
\* a Get or a Resolve of a Singleton key
\* has succeeded, each tagged field of its value that is bound as a Singleton
\* holds the instance of that binding, and the tagged fields of that instance
\* that have the first key hold the value returned.
C7_CyclicFieldsResolved ==
    \A g \in Goroutines :
        Closed /\ Got(g) /\ IsSingleton(result[g].key) =>
            LET a == result[g].vals[1] IN
            \A i \in TaggedFields(a) :
                LET kB == FieldKey(StructFields(heap[a].type)[i])
                    b == heap[a].f[i]
                IN  IsSingleton(kB) =>
                      /\ b = bindings[kB].instance
                      /\ \A j \in TaggedFields(b) :
                            FieldKey(StructFields(heap[b].type)[j]) = result[g].key
                                => heap[b].f[j] = a

\* C10: exact key matching.  The value a Get or a Resolve returned for a key,
\* and the value wired into a tagged field, was built by the provider bound
\* under exactly that type and that name; and the instances cached for
\* different keys are different objects.
C10_ExactKey ==
    /\ \A g \in Goroutines : Got(g) =>
          /\ result[g].key \in DOMAIN bindings
          /\ heap[result[g].vals[1]].by = bindings[result[g].key].provider
    /\ \A o \in 1..Len(heap) : \A i \in TaggedFields(o) :
          heap[o].f[i] # Nil =>
              LET k == FieldKey(StructFields(heap[o].type)[i]) IN
              /\ k \in DOMAIN bindings
              /\ heap[heap[o].f[i]].by = bindings[k].provider
    /\ \A k1, k2 \in DOMAIN bindings :
          k1 # k2 /\ bindings[k1].instance # Nil
              => bindings[k1].instance # bindings[k2].instance

\* Get has returned the Partner bound under "Dale" while the Singleton bound
\* under "Peter" holds another Partner, and no Partner is bound under ""
C10_Witness ==
    /\ Got(1) /\ result[1].key = Key("Partner", "Dale")
    /\ IsSingleton(Key("Partner", "Dale")) /\ IsSingleton(Key("Partner", "Peter"))
    /\ bindings[Key("Partner", "Peter")].instance \notin {Nil, result[1].vals[1]}
    /\ Key("Partner", "") \notin DOMAIN bindings

-----------------------------------------------------------------------------
(* Registration *)

\* the providers registration is to accept: a function without parameters
\* that returns one or two values, the first of pointer or interface kind
Valid(id) ==
    /\ Provider(id).isFunc
    /\ Provider(id).numIn = 0
    /\ Len(Provider(id).out) \in {1, 2}
    /\ TypeKind(Provider(id).out[1]) \in {"ptr", "interface"}

\* the registration that just ended was refused
Refused(g) == result[g].op = "bind" /\ result[g].status # "ok"

\* C11: registration validation.  A registration of a provider that is no
\* function, takes a parameter, returns no or more than two values, or whose
\* first result is of a value kind, fails with InvalidProviderSignature and
\* changes no key of the registry: every binding the registry holds has a
\* valid provider, and a Get of the value type never succeeds: it ends with
\* NotFound, or with InvalidTarget when no handler stood by for the kind.
C11_RegistrationValidation ==
    /\ [](\A k \in DOMAIN bindings : Valid(bindings[k].provider))
    /\ [][AllIdle /\ Refused(1)' =>
            /\ result'[1].err = "InvalidProviderSignature"
            /\ bindings' = bindings]_vars
    /\ [](result[1].op = "Get" /\ result[1].key = Key("ValueC", "")
            => /\ result[1].status # "ok"
               /\ result[1].err \in {"NotFound", "InvalidTarget"})

\* a registration was just refused and reported to the handler, and the
\* registry still holds the binding of *TypeC made before it and none of ValueC
C11_Witness ==
    /\ Refused(1) /\ result[1].err = "InvalidProviderSignature"
    /\ handled[1] = <<"h1">>
    /\ Key("TypeC", "") \in DOMAIN bindings
    /\ Key("ValueC", "") \notin DOMAIN bindings

\* C12: a provider with two results whose second is not an error is refused:
\* no binding of the registry has such a provider.
C12_SecondReturnIsError ==
    \A k \in DOMAIN bindings :
        Len(Provider(bindings[k].provider).out) = 2
            => Provider(bindings[k].provider).out[2] = "error"

-----------------------------------------------------------------------------
(* The error handler *)

\* goroutine g's last operation ended with an error given to the handler
Reported(g) == Idle(g) /\ result[g].status = "error"

\* C13: the handler is called exactly once by a registration that fails, and
\* exactly once by a Call one of whose parameters has a provider that
\* returns nil or an error.
C13_HandlerOncePerFailure ==
    \A g \in Goroutines :
        /\ Refused(g) /\ Reported(g) => Len(handled[g]) = 1
        /\ /\ Reported(g) /\ result[g].op = "Call"
           /\ result[g].err \in {"NilProviderResult", "ProviderReturnedError"}
           => Len(handled[g]) = 1

\* a Call has ended because the provider of its parameter returned an error
\* next to an object, and the handler was called once
C13_Witness ==
    /\ Reported(1) /\ result[1].op = "Call"
    /\ result[1].err = "ProviderReturnedError"
    /\ \E j \in 1..Len(invoked[1]) : invoked[1][j].obj # Nil
    /\ Len(handled[1]) = 1

\* C14: a Get that fails gives the failure to the handler exactly once (and
\* returns the zero value).
C14_GetFailsOnce ==
    \A g \in Goroutines :
        Reported(g) /\ result[g].op = "Get" => Len(handled[g]) = 1

\* C15: one sink is in effect.  Without a handler a failure ends in a panic
\* and no handler is called; with a handler every failure is given to the
\* handler installed last, and to no other.
C15_SinkSelection ==
    [][\A g \in Goroutines :
          /\ handled'[g] # handled[g] =>
                \A j \in 1..Len(handled'[g]) : handled'[g][j] = errHandler
          /\ result'[g] # result[g] /\ result'[g].status \in {"error", "panic"} =>
                IF errHandler = "nil"
                THEN result'[g].status = "panic" /\ handled'[g] = << >>
                ELSE result'[g].status = "error" /\ handled'[g] # << >>]_vars

\* with h2 installed, a Call of a value that is no function has failed and
\* the failure was given to h2 alone
C15_Witness ==
    /\ errHandler = "h2" /\ Reported(1) /\ result[1].op = "Call"
    /\ result[1].err = "InvalidCallReceiver"
    /\ handled[1] = <<"h2">>

-----------------------------------------------------------------------------
(* Providers: when they are called and what becomes of a failure *)

\* goroutine g is about to call the provider of the binding it resolves
AtInvoke(g) == ~Idle(g) /\ Top(g).fn = "resolve" /\ Top(g).pc = "invoke"

\* C16: lazy singletons.  A registration calls no provider: it builds no
\* object and every binding it stores has no instance; objects are built
\* only by a resolution that has come to the provider's call, and a binding
\* gets its instance only from the resolution that is wiring an object for it.
C16_LazySingletons ==
    [][/\ AllIdle /\ result'[1].op = "bind" =>
            /\ heap' = heap /\ invoked' = invoked
            /\ \A k \in DOMAIN bindings' :
                  k \notin DOMAIN bindings \/ bindings'[k] # bindings[k]
                      => bindings'[k].instance = Nil
       /\ heap' # heap => AtInvoke(1)
       /\ \A k \in DOMAIN bindings \cap DOMAIN bindings' :
             bindings'[k].instance # bindings[k].instance /\ bindings'[k].instance # Nil
                 => /\ ~Idle(1) /\ Top(1).fn = "resolve" /\ Top(1).pc = "filled"
                    /\ Top(1).key = k /\ bindings'[k].instance = Top(1).obj]_vars

\* the first Get of a Singleton has returned the only object there is: the
\* registration built none, the Get called the provider once
C16_Witness ==
    /\ Got(1) /\ IsSingleton(result[1].key)
    /\ Len(heap) = 1 /\ Len(invoked[1]) = 1
    /\ bindings[result[1].key].instance = 1

\* the provider call goroutine g made last
LastInvoked(g) == invoked[g][Len(invoked[g])]

\* goroutine g returns from the provider's call in this step
Invokes(g) == AtInvoke(g) /\ stack'[g] # stack[g]

\* C17: nil result.  A provider that returns nil makes the resolution fail
\* with NilProviderResult and leaves nothing behind: no object, no entry in
\* `instantiated`, no instance in the binding; and a Get that succeeds
\* returns what the provider bound at that time built (the corrected one,
\* after a registration under the same key).
C17_NilResult ==
    /\ [][\A g \in Goroutines :
            Invokes(g) /\ LastInvoked(g)'.yield = "nil" =>
                /\ stack'[g] = Callers(g)
                /\ ret'[g] = Ret(Nil, "NilProviderResult")
                /\ heap' = heap /\ instantiated'[g] = instantiated[g]
                /\ bindings'[Top(g).key].instance = Nil]_vars
    /\ [][\A g \in Goroutines :
            result'[g] # result[g] /\ result'[g].op = "Get" /\ result'[g].status = "ok"
                => heap[result'[g].vals[1]].by = bindings[result'[g].key].provider]_vars

\* the Singleton of *TypeC failed with NilProviderResult under a provider
\* that returns nil; now func() *TypeC is bound as Singleton under the key
\* and a Get has returned the object it built
C17_Witness ==
    /\ <<Key("TypeC", ""), "NilProviderResult", Binding_Singleton, "typeCnil">>
           \in returned.failed
    /\ Got(1) /\ result[1].key = Key("TypeC", "")
    /\ IsSingleton(Key("TypeC", ""))
    /\ bindings[Key("TypeC", "")].provider = "typeC"
    /\ bindings[Key("TypeC", "")].instance = result[1].vals[1]

\* nothing holds a reference to object o
Unreferenced(o) ==
    /\ \A k \in DOMAIN bindings : bindings[k].instance # o
    /\ \A p \in 1..Len(heap) : \A i \in 1..Len(heap[p].f) : heap[p].f[i] # o
    /\ \A d \in returned.once : d[2] # o
    /\ \A g \in Goroutines :
          /\ ret[g].val # o
          /\ \A c \in DOMAIN instantiated[g] : instantiated[g][c] # o
          /\ \A i \in 1..Len(result[g].vals) : result[g].vals[i] # o
          /\ \A i \in 1..Len(stack[g]) :
                /\ stack[g][i].obj # o
                /\ \A j \in 1..Len(stack[g][i].args) : stack[g][i].args[j] # o

\* C18: provider error.  A provider that returns an error makes the
\* resolution fail with ProviderReturnedError; its first result is dropped:
\* it is not entered in `instantiated`, the binding gets no instance, and
\* nothing (no field, no result, no binding) ever refers to it.  A Singleton
\* binding without an instance calls its provider at the next resolution.
C18_ProviderError ==
    /\ [][\A g \in Goroutines :
            Invokes(g) /\ LastInvoked(g)'.yield \in {"err", "objerr"} =>
                /\ stack'[g] = Callers(g)
                /\ ret'[g] = Ret(Nil, "ProviderReturnedError")
                /\ instantiated'[g] = instantiated[g]
                /\ bindings'[Top(g).key].instance = Nil]_vars
    /\ [](\A g \in Goroutines : \A j \in 1..Len(invoked[g]) :
            invoked[g][j].yield = "objerr" => Unreferenced(invoked[g][j].obj))
    /\ [][\A g \in Goroutines :
            /\ ~Idle(g) /\ Top(g).fn = "resolve" /\ Top(g).pc = "lock"
            /\ stack'[g] # stack[g] /\ bindings[Top(g).key].instance = Nil
            => AtInvoke(g)']_vars

\* the Singleton provider of *TypeC returned an object with an error once;
\* a later Get of *TypeB called it again and holds, in its field, the object
\* of the second call, which the binding now keeps
C18_Witness ==
    /\ <<Key("TypeC", ""), "ProviderReturnedError", Binding_Singleton, "typeCerr">>
           \in returned.failed
    /\ Got(1) /\ result[1].key = Key("TypeB", "")
    /\ IsSingleton(Key("TypeC", ""))
    /\ bindings[Key("TypeC", "")].provider = "typeCerr"
    /\ \E j \in 1..Len(invoked[1]) :
          /\ invoked[1][j].key = Key("TypeC", "") /\ invoked[1][j].err = NoErr
          /\ invoked[1][j].obj = bindings[Key("TypeC", "")].instance
          /\ heap[result[1].vals[1]].f[1] = invoked[1][j].obj
          /\ invoked[1][j].obj > 1

-----------------------------------------------------------------------------
(* Call *)

\* goroutine g is about to call the function given to Call
AtCall(g) == ~Idle(g) /\ Top(g).fn = "Call" /\ Top(g).pc = "invoke"

\* goroutine g's Call ends in this step
CallEnds(g) ==
    /\ result'[g] # result[g] \/ handled'[g] # handled[g]
    /\ result'[g].op = "Call"

\* C19: Call aborts on failure.  The function is called only when an
\* instance was resolved for each of its parameters; a Call that ends
\* anywhere else (a parameter without binding under "", a provider that
\* returns nil or an error, an argument that is no function) has not called
\* it, ends with the error and has reported it.
C19_CallAborts ==
    /\ [](\A g \in Goroutines : AtCall(g) =>
            /\ Len(Top(g).args) = Len(Top(g).params)
            /\ \A i \in 1..Len(Top(g).params) :
                  /\ Top(g).args[i] # Nil
                  /\ Key(Top(g).params[i], "") \in DOMAIN bindings)
    /\ [][\A g \in Goroutines :
            CallEnds(g) /\ ~AtCall(g) =>
                /\ result'[g].status # "ok" /\ result'[g].vals = << >>
                /\ result'[g].err \in {"NotFound", "NilProviderResult",
                                       "ProviderReturnedError", "InvalidCallReceiver"}
                /\ IF errHandler = "nil" THEN result'[g].status = "panic"
                   ELSE handled'[g] = << errHandler >>]_vars

\* a Call of func(*TypeC) has ended with NotFound, reported once, while no
\* provider of *TypeC is bound
C19_Witness ==
    /\ Reported(1) /\ result[1].op = "Call" /\ result[1].err = "NotFound"
    /\ Key("TypeC", "") \notin DOMAIN bindings
    /\ Len(handled[1]) = 1

\* C20: Call success.  A Call that ends well ends in the one call of the
\* function, with as many arguments as parameters; argument i was built by
\* the provider bound to (type of parameter i, ""), is the instance of that
\* binding if it is a Singleton, and was else built in this Call for
\* parameter i.  A binding under another name gives no argument.
C20_CallSuccess ==
    [][\A g \in Goroutines :
          CallEnds(g) /\ result'[g].status = "ok" =>
              /\ AtCall(g)
              /\ result'[g].vals = Top(g).args
              /\ Len(Top(g).args) = Len(Top(g).params)
              /\ \A i \in 1..Len(Top(g).params) :
                    LET k == Key(Top(g).params[i], "")
                        a == Top(g).args[i]
                    IN  /\ k \in DOMAIN bindings
                        /\ heap[a].type = k[1]
                        /\ heap[a].by = bindings[k].provider
                        /\ IsSingleton(k) => a = bindings[k].instance
                        /\ IsInstance(k) => a \in BuiltIn(g, i)]_vars

\* Call of func(*TypeB, *TypeC) has returned; both were given by the
\* providers bound under "", while another provider of *TypeC is bound
\* under the name "x"
C20_Witness ==
    /\ Done(1) /\ result[1].op = "Call" /\ Len(result[1].vals) = 2
    /\ Key("TypeC", "x") \in DOMAIN bindings
    /\ bindings[Key("TypeC", "x")].provider = "typeCerr"
    /\ heap[result[1].vals[1]].type = "TypeB"
    /\ heap[result[1].vals[2]].by = "typeC"

\* C21: Call resolves its parameters in one shared map `instantiated`.  When
\* a Call has returned, an argument of an Instance binding is the very object
\* that the tagged fields of the other arguments hold for that binding.
C21_CallSharesContext ==
    \A g \in Goroutines :
        Done(g) /\ result[g].op = "Call" =>
            \A i, j \in 1..Len(result[g].vals) :
                LET a == result[g].vals[i]
                    b == result[g].vals[j]
                IN  \A n \in TaggedFields(a) :
                        /\ FieldKey(StructFields(heap[a].type)[n]) = Key(heap[b].type, "")
                        /\ IsInstance(Key(heap[b].type, ""))
                        => heap[a].f[n] = b

-----------------------------------------------------------------------------
(* Resolve *)

\* goroutine g's Resolve ends in this step
ResolveEnds(g) ==
    /\ result'[g] # result[g] \/ handled'[g] # handled[g]
    /\ result'[g].op = "Resolve"

\* C22: the destination of Resolve.  A Resolve that succeeds assigns the
\* value binding.resolve returned, a value of the pointee's type; a Resolve
\* that fails for whatever reason assigns nothing.
C22_ResolveDestination ==
    [][\A g \in Goroutines :
          ResolveEnds(g) =>
              IF result'[g].status = "ok"
              THEN /\ ~Idle(g) /\ Top(g).fn = "Resolve" /\ ret[g].err = NoErr
                   /\ result'[g].vals = << ret[g].val >>
                   /\ heap[ret[g].val].type = Top(g).key[1]
                   /\ heap[ret[g].val].by = bindings[Top(g).key].provider
              ELSE result'[g].vals = << >>]_vars

\* a Resolve has failed because the provider returned an object and an
\* error; nothing was assigned
C22_Witness ==
    /\ Reported(1) /\ result[1].op = "Resolve"
    /\ result[1].err = "ProviderReturnedError"
    /\ \E j \in 1..Len(invoked[1]) : invoked[1][j].obj # Nil
    /\ result[1].vals = << >>

\* the pointer types Resolve is given a variable of
PointerTypes == {"TypeC"}

\* C23: the second lookup of Resolve.  Without a binding for the pointee's
\* type and the name, Resolve fails with PassedByValueNotReference when the
\* argument's own type is bound under the name, with NotFound when it is
\* not; it calls no provider and assigns nothing.
C23_ResolveDiagnostic ==
    [][\A g \in Goroutines :
          ResolveEnds(g) /\ Idle(g) =>
              /\ result'[g].status # "ok" /\ result'[g].vals = << >>
              /\ heap' = heap /\ invoked' = invoked /\ bindings' = bindings
              /\ \A T \in PointerTypes :
                    /\ result'[g].key = Key(elem(Val(T)), "") =>
                          result'[g].err =
                              IF Key(T, "") \in DOMAIN bindings
                              THEN "PassedByValueNotReference" ELSE "NotFound"
                    /\ result'[g].key = Key(elem(Ref(T)), "") =>
                          /\ result'[g].err = "NotFound"
                          /\ Key(T, "") \notin DOMAIN bindings]_vars

\* Resolve was given a *TypeC variable itself while a Singleton of *TypeC is
\* bound: it failed with PassedByValueNotReference and nothing was built
C23_Witness ==
    /\ Reported(1) /\ result[1].op = "Resolve"
    /\ result[1].err = "PassedByValueNotReference"
    /\ IsSingleton(Key("TypeC", ""))
    /\ bindings[Key("TypeC", "")].instance = Nil
    /\ heap = << >>

-----------------------------------------------------------------------------
(* Fill: the key of a field, the fields that are written *)

\* C24: in a Fill, a field is resolved only when it bears a tag, under the
\* key (declared type, "") for the tag `type` and (declared type, field name)
\* for the tag `name`; a field is written only by the fill that resolved it,
\* with the value resolved, exported or not; a Fill that ends well has
\* written every tagged field and no other; a Fill of a struct with no
\* tagged field ends well and reports nothing.
C24_FillKeySelection ==
    [][\A g \in Goroutines :
        /\ (~Idle(g) /\ Top(g).fn = "fill" /\ Len(stack'[g]) > Len(stack[g]))
             => LET f == StructFields(heap[Top(g).obj].type)[Top(g).i]
                    callee == stack'[g][Len(stack'[g])]
                IN  /\ f.hasTag /\ f.tag \in {"type", "name"}
                    /\ callee.fn = "resolve"
                    /\ callee.key = << f.type, IF f.tag = "name" THEN f.name ELSE "" >>
        /\ \A o \in 1..Len(heap) : \A i \in 1..Len(heap[o].f) :
             (heap'[o].f[i] # heap[o].f[i] /\ ~Idle(g))
             => LET f == StructFields(heap[o].type)[i]
                IN  /\ f.hasTag
                    /\ Top(g).fn = "fill" /\ Top(g).obj = o /\ Top(g).i = i
                    /\ heap'[o].f[i] = ret[g].val
                    /\ heap[ret[g].val].type = f.type
                    /\ heap[ret[g].val].by =
                         bindings[<< f.type, IF f.tag = "name" THEN f.name
                                             ELSE "" >>].provider
        /\ (~Idle(g) /\ Idle(g)' /\ stack[g][1].fn = "Fill")
             => LET o == stack[g][1].obj
                    fields == StructFields(heap[o].type)
                    tagged == {i \in 1..Len(fields) : fields[i].hasTag}
                IN  /\ tagged = {} => result'[g].status = "ok" /\ handled'[g] = << >>
                    /\ result'[g].status = "ok"
                         => \A i \in 1..Len(fields) :
                                (heap'[o].f[i] # Nil) <=> (i \in tagged)]_vars

\* a Fill of SomeStruct has ended well: S and D hold what the providers
\* bound by type built, C what the provider bound under the name "C" built,
\* and X holds nothing
C24_Witness ==
    /\ Done(1) /\ result[1].op = "Fill" /\ result[1].key[1] = "SomeStruct"
    /\ LET o == result[1].vals[1]
       IN  /\ heap[o].f[1] # Nil /\ heap[o].f[2] # Nil /\ heap[o].f[3] # Nil
           /\ heap[o].f[3] # heap[o].f[1]
           /\ heap[o].f[4] = Nil
           /\ \E j \in 1..Len(invoked[1]) : invoked[1][j].key = Key("Shape", "C")

\* C25: a Fill of a struct with a field whose tag is neither `type` nor
\* `name` does not end well; that field and the fields after it are never
\* written and no provider is invoked for them; when the fields before it
\* are bound, the Fill ends with InvalidTag, reported once, and the tagged
\* fields before it hold what was resolved for them.  (The providers of the
\* registry here have no dependencies: one invocation per field at most.)
C25_InvalidTagStops ==
    [][\A g \in Goroutines :
        (~Idle(g) /\ Idle(g)' /\ stack[g][1].fn = "Fill")
        => LET o == stack[g][1].obj
               fields == StructFields(heap[o].type)
               bad == {i \in 1..Len(fields) :
                          fields[i].hasTag /\ fields[i].tag \notin {"type", "name"}}
               before == {i \in 1..Len(fields) :
                             fields[i].hasTag /\ \A n \in bad : i < n}
               keyOf(i) == << fields[i].type,
                              IF fields[i].tag = "name" THEN fields[i].name ELSE "" >>
           IN  bad # {}
               => /\ result'[g].status # "ok"
                  /\ \A i \in 1..Len(fields) : i \notin before => heap'[o].f[i] = Nil
                  /\ Len(invoked'[g]) <= Cardinality(before)
                  /\ \A j \in 1..Len(invoked'[g]) :
                        \E i \in before : invoked'[g][j].key = keyOf(i)
                  /\ (\A i \in before : keyOf(i) \in DOMAIN bindings)
                        => /\ result'[g].err = "InvalidTag"
                           /\ \A i \in before : heap'[o].f[i] # Nil
                           /\ handled'[g] = IF errHandler = "nil" THEN << >>
                                            ELSE << errHandler >>
                           /\ result'[g].status =
                                IF errHandler = "nil" THEN "panic" ELSE "error"]_vars

\* a Fill of TagApp has returned with InvalidTag: S is written, T (the
\* invalid tag) and D (bound, but after T) are not
C25_Witness ==
    /\ Idle(1) /\ result[1].op = "Fill" /\ result[1].key[1] = "TagApp"
    /\ result[1].status = "error" /\ result[1].err = "InvalidTag"
    /\ Key("Database", "") \in DOMAIN bindings
    /\ \E o \in 1..Len(heap) :
          /\ heap[o].type = "TagApp"
          /\ heap[o].f[1] # Nil /\ heap[o].f[2] = Nil /\ heap[o].f[3] = Nil

\* C26: a Fill in which the resolution of a tagged field failed, and that
\* handed the error to the installed handler, reported once and returned
\* normally.
C26_FillUnresolvedField ==
    \A g \in Goroutines :
        (Idle(g) /\ result[g].op = "Fill" /\ result[g].status # "ok"
                 /\ handled[g] # << >>)
        => result[g].status = "error" /\ Len(handled[g]) = 1

\* C27: a Fill that ends in its first step, its argument being no pointer
\* to a struct, reports InvalidFillTarget to the installed handler once and
\* returns; it builds nothing, invokes no provider and changes no binding.
C27_FillTargetValidation ==
    [][\A g \in Goroutines :
        (Idle(g) /\ Idle(g)' /\ result'[g].op = "Fill"
                 /\ <<result[g], handled[g]>> # <<result'[g], handled'[g]>>
                 /\ errHandler # "nil")
        => /\ result'[g].status = "error"
           /\ result'[g].err = "InvalidFillTarget"
           /\ handled'[g] = << errHandler >>
           /\ heap' = heap /\ invoked' = invoked /\ bindings' = bindings]_vars

-----------------------------------------------------------------------------
(* Registration again, and Reset *)

\* C29: a registration that succeeds reports nothing and leaves, at every
\* key of its provider, a new binding without instance, whatever was bound
\* there, and changes no other binding; no binding holds an instance that
\* an earlier binding of its key held; what a key has delivered since it
\* was last registered was built by the provider now bound there and was
\* never the instance of an earlier binding of the key.
C29_ReRegistrationOverwrites ==
    [][/\ \A g \in Goroutines :
            (result'[g].op = "bind" /\ result'[g].status = "ok"
                /\ (result'[g] # result[g] \/ bindings' # bindings))
            => LET k == result'[g].key
               IN  /\ k \in DOMAIN bindings'
                   /\ bindings'[k].instance = Nil
                   /\ handled'[g] = << >>
                   /\ \A j \in DOMAIN bindings :
                         /\ j \in DOMAIN bindings'
                         /\ bindings'[j] # bindings[j]
                              => /\ j[2] = k[2]
                                 /\ bindings'[j] = bindings'[k]
       /\ \A k \in DOMAIN bindings' :
            bindings'[k].instance # Nil
            => /\ << k, bindings'[k].instance >> \notin returned'.orphaned
               /\ heap'[bindings'[k].instance].by = bindings'[k].provider
       /\ returned'.once \cap returned'.orphaned = {}
       /\ \A d \in returned'.once :
            d[1] \in DOMAIN bindings' => heap'[d[2]].by = bindings'[d[1]].provider
      ]_vars

\* *TypeC was bound as a singleton that cached an object, was registered
\* again as an instance binding, and has since delivered another object
C29_Witness ==
    /\ Done(1) /\ result[1].op = "Get"
    /\ Key("TypeC", "") \in DOMAIN bindings
    /\ bindings[Key("TypeC", "")].btype = Binding_Instance
    /\ \E o \in 1..Len(heap) :
          /\ << Key("TypeC", ""), o >> \in returned.orphaned
          /\ result[1].vals[1] # o
          /\ << Key("TypeC", ""), result[1].vals[1] >> \in returned.once

\* C28: a Reset leaves no binding; a Get of a pointer or interface type
\* starts a resolution only when its key is bound and otherwise goes to its
\* deferred function with NotFound, from where it ends with NotFound,
\* building and invoking nothing; the first value a key delivers
\* after its registration is built by an invocation of that Get, and is not
\* an instance that a binding removed by Reset (or replaced) held.
C28_ResetClears ==
    [][\A g \in Goroutines :
        /\ (result'[g].op = "Reset"
                /\ (result'[g] # result[g] \/ bindings' # bindings))
             => bindings' = << >>
        /\ (Idle(g) /\ ~Idle(g)' /\ stack'[g][1].fn = "Get"
                /\ TypeKind(stack'[g][1].key[1]) \in {"ptr", "interface"})
             => /\ heap' = heap /\ invoked'[g] = << >>
                /\ IF stack'[g][1].key \in DOMAIN bindings
                   THEN /\ Len(stack'[g]) = 2
                        /\ stack'[g][2].fn = "resolve"
                        /\ stack'[g][2].key = stack'[g][1].key
                   ELSE /\ Len(stack'[g]) = 1
                        /\ stack'[g][1].pc = "recover"
                        /\ stack'[g][1].params = << "NotFound" >>
        /\ (~Idle(g) /\ Idle(g)' /\ stack[g][1].fn = "Get"
                /\ TypeKind(stack[g][1].key[1]) \in {"ptr", "interface"}
                /\ stack[g][1].key \notin DOMAIN bindings)
             => /\ result'[g].op = "Get" /\ result'[g].key = stack[g][1].key
                /\ result'[g].status # "ok" /\ result'[g].err = "NotFound"
                /\ heap' = heap /\ invoked' = invoked
                /\ invoked[g] = << >>
        /\ (~Idle(g) /\ Idle(g)' /\ result'[g].op = "Get"
                /\ result'[g].status = "ok")
             => LET k == result'[g].key
                    v == result'[g].vals[1]
                IN  /\ << k, v >> \notin returned.orphaned
                    /\ (\A d \in returned.once : d[1] # k)
                         => \E j \in 1..Len(invoked'[g]) :
                               /\ invoked'[g][j].key = k
                               /\ invoked'[g][j].obj = v]_vars

\* after a Reset that removed a singleton with its instance, a Get of
\* *TypeC has failed with NotFound
C28_Witness ==
    /\ Idle(1) /\ result[1].op = "Get" /\ result[1].key = Key("TypeC", "")
    /\ result[1].err = "NotFound"
    /\ bindings = << >>
    /\ \E d \in returned.orphaned : d[1] = Key("TypeC", "")

-----------------------------------------------------------------------------
(* The instance of a singleton binding *)

\* C30: while an operation runs, every binding stays bound with its kind
\* and its provider; an instance that is set stays as it is; an instance is
\* set only in a singleton binding, by the goroutine that holds its mutex,
\* standing in the resolve of that key after the fill returned without
\* error, to the object the provider built in this operation without error,
\* whose tagged fields are all written; an instance binding never holds one.
C30_CacheWriteOnce ==
    [][/\ ~(AllIdle /\ AllIdle')
          => \A k \in DOMAIN bindings :
                /\ k \in DOMAIN bindings'
                /\ bindings'[k].btype = bindings[k].btype
                /\ bindings'[k].provider = bindings[k].provider
                /\ bindings[k].instance # Nil
                     => bindings'[k].instance = bindings[k].instance
                /\ (bindings[k].instance = Nil /\ bindings'[k].instance # Nil)
                     => \E g \in Goroutines :
                          /\ ~Idle(g)
                          /\ Top(g).fn = "resolve" /\ Top(g).pc = "filled"
                          /\ Top(g).key = k
                          /\ bindings[k].btype = Binding_Singleton
                          /\ bindings[k].mu = g /\ bindings'[k].mu = 0
                          /\ ret[g].err = NoErr
                          /\ bindings'[k].instance = Top(g).obj
                          /\ \E j \in 1..Len(invoked[g]) :
                                /\ invoked[g][j].key = k
                                /\ invoked[g][j].obj = Top(g).obj
                                /\ invoked[g][j].err = NoErr
                          /\ \A i \in 1..Len(heap[Top(g).obj].f) :
                                StructFields(heap[Top(g).obj].type)[i].hasTag
                                => heap[Top(g).obj].f[i] # Nil
       /\ \A k \in DOMAIN bindings' :
            bindings'[k].btype = Binding_Instance => bindings'[k].instance = Nil
      ]_vars

\* the singleton of *TypeC whose provider once returned an error holds an
\* instance, and the singleton of *TypeB holds one wired to it
C30_Witness ==
    /\ {Key("TypeC", ""), Key("TypeB", "")} \subseteq DOMAIN bindings
    /\ bindings[Key("TypeC", "")].btype = Binding_Singleton
    /\ bindings[Key("TypeC", "")].provider = "typeCerr"
    /\ bindings[Key("TypeC", "")].instance # Nil
    /\ \E d \in returned.failed : d[1] = Key("TypeC", "") /\ d[4] = "typeCerr"
    /\ bindings[Key("TypeB", "")].instance # Nil
    /\ heap[bindings[Key("TypeB", "")].instance].f[1] =
          bindings[Key("TypeC", "")].instance

-----------------------------------------------------------------------------
(* The work of one operation *)

\* C31: among the provider calls of one operation that were made under one
\* map `instantiated`, no two are calls of the same provider under the same
\* name, however many fields ask for its type and whatever cycles the
\* fields form.
C31_BoundedConstruction ==
    \A g \in Goroutines :
        \A i, j \in 1..Len(invoked[g]) :
            /\ i # j
            /\ invoked[g][i].ctx = invoked[g][j].ctx
            /\ {invoked[g][i].key, invoked[g][j].key} \subseteq DOMAIN bindings
            => << bindings[invoked[g][i].key].provider, invoked[g][i].key[2] >>
                 # << bindings[invoked[g][j].key].provider, invoked[g][j].key[2] >>

\* a Get of Alice, all bindings being instance bindings, has called three
\* providers: alice.Bob.Alice is that Alice, and the John of Alice is the
\* John of Bob
C31_Witness ==
    /\ Got(1) /\ result[1].key = Key("Alice", "")
    /\ \A k \in {Key("Alice", ""), Key("Bob", ""), Key("John", "")} : IsInstance(k)
    /\ Len(invoked[1]) = 3
    /\ LET a == result[1].vals[1]
       IN  /\ heap[heap[a].f[1]].f[1] = a
           /\ heap[heap[a].f[1]].f[2] = heap[a].f[2]

\* C32: an instance binding never holds an instance; a Get of the key of an
\* instance binding that went into binding.resolve has called the provider
\* of that key when it ends, well or not, and what it returns is what that
\* call built; so has a Call for each parameter bound as instance.
C32_InstanceNeverCaches ==
    [][/\ \A k \in DOMAIN bindings' :
            bindings'[k].btype = Binding_Instance => bindings'[k].instance = Nil
       /\ \A g \in Goroutines :
            (~Idle(g) /\ Idle(g)' /\ stack[g][1].fn = "Get"
                /\ stack[g][1].key \in DOMAIN bindings
                /\ bindings[stack[g][1].key].btype = Binding_Instance)
            => \E j \in 1..Len(invoked'[g]) :
                  /\ invoked'[g][j].key = stack[g][1].key
                  /\ result'[g].status = "ok"
                       => result'[g].vals = << invoked'[g][j].obj >>
       /\ \A g \in Goroutines :
            (~Idle(g) /\ Idle(g)' /\ stack[g][1].fn = "Call"
                /\ result'[g].status = "ok")
            => \A p \in 1..Len(stack[g][1].params) :
                  bindings[Key(stack[g][1].params[p], "")].btype = Binding_Instance
                  => \E j \in 1..Len(invoked'[g]) :
                        /\ invoked'[g][j].key = Key(stack[g][1].params[p], "")
                        /\ invoked'[g][j].ctx = p
                        /\ invoked'[g][j].obj = result'[g].vals[p]
      ]_vars

\* the instance binding of *TypeC, whose provider has failed before, has
\* built a second object for a Get, the first having been handed out too
C32_Witness ==
    /\ Got(1) /\ result[1].key = Key("TypeC", "")
    /\ IsInstance(Key("TypeC", ""))
    /\ bindings[Key("TypeC", "")].provider = "typeCerr"
    /\ \E d \in returned.failed :
          d[1] = Key("TypeC", "") /\ d[3] = Binding_Instance /\ d[4] = "typeCerr"
    /\ \E d \in returned.once :
          d[1] = Key("TypeC", "") /\ d[2] # result[1].vals[1]

-----------------------------------------------------------------------------
(* Two goroutines *)

\* the objects reached from those of S through at most n fields
RECURSIVE Reach(_, _)
Reach(S, n) ==
    IF n = 0 THEN S
    ELSE Reach(S \cup (UNION {{heap[o].f[i] : i \in 1..Len(heap[o].f)} : o \in S}
                       \ {Nil}), n - 1)

\* the objects goroutine g is wiring: built by g, their fill not yet returned
WiredBy(g) ==
    {stack[g][i].obj : i \in {j \in 1..Len(stack[g]) :
        stack[g][j].fn = "resolve" /\ stack[g][j].pc = "filled"}}

\* C33: two goroutines that got the key of an instance binding hold two
\* objects, and nothing that is reached from what a Get of an instance
\* binding returned is an object another goroutine is still wiring.
C33_InstanceIsolation ==
    /\ \A d \in returned.again : ~IsInstance(d[1])
    /\ \A g1, g2 \in Goroutines :
          (g1 # g2 /\ Got(g1) /\ IsInstance(result[g1].key))
          => /\ (Got(g2) /\ result[g2].key = result[g1].key)
                  => result[g1].vals # result[g2].vals
             /\ Reach({result[g1].vals[1]}, MaxObjects) \cap WiredBy(g2) = {}

\* C34: when every binding is a singleton binding, every tagged field of
\* every object reached from what a Get has returned is set.
C34_NoPartialSingleton ==
    \A g \in Goroutines :
        (Got(g) /\ \A k \in DOMAIN bindings : IsSingleton(k))
        => \A o \in Reach({result[g].vals[1]}, MaxObjects) :
              \A i \in TaggedFields(o) : heap[o].f[i] # Nil

-----------------------------------------------------------------------------
(* The mutex of the error handler *)

\* C35: no goroutine stands in injector.mu.Lock() of SetErrorHandler while
\* it holds a read lock of injector.mu itself, and no goroutine stands in
\* RLock of handleError, holding a read lock already, while a writer waits:
\* such states are never left.
C35_SinkNeverBlocks ==
    /\ \A g \in Goroutines : ~(g \in Writers /\ RLocks(g) > 0)
    /\ \A g \in Goroutines :
          ~(/\ ~Idle(g) /\ Top(g).fn = "handleError" /\ Top(g).pc = "rlock"
            /\ RLocks(g) > 0 /\ Writers # {})

-----------------------------------------------------------------------------
(* Providers with two return types *)

\* C36: a registration that succeeds leaves, under the name given and each
\* return type of its provider, a binding with that provider and the kind
\* asked for, without instance; and a step that sets the instance of one
\* binding leaves the instance of every other binding as it was.
C36_TwoReturnBindings ==
    [][/\ \A g \in Goroutines :
            (result'[g].op = "bind" /\ result'[g].status = "ok"
                /\ (result'[g] # result[g] \/ bindings' # bindings))
            => LET k == result'[g].key
                   out == Provider(bindings'[k].provider).out
               IN  \A i \in 1..Len(out) :
                      /\ << out[i], k[2] >> \in DOMAIN bindings'
                      /\ bindings'[<< out[i], k[2] >>].provider = bindings'[k].provider
                      /\ bindings'[<< out[i], k[2] >>].btype = bindings'[k].btype
                      /\ bindings'[<< out[i], k[2] >>].instance = Nil
       /\ \A k1, k2 \in DOMAIN bindings :
            (k1 # k2 /\ DOMAIN bindings' = DOMAIN bindings
                /\ bindings[k1].instance = Nil /\ bindings'[k1].instance # Nil)
            => bindings'[k2].instance = bindings[k2].instance
      ]_vars

\* func() (*TypeC, error) is bound as a singleton under both of its return
\* types; the binding of *TypeC holds an instance, that of error holds none
C36_Witness ==
    /\ {Key("TypeC", ""), Key("error", "")} \subseteq DOMAIN bindings
    /\ bindings[Key("TypeC", "")].provider = "typeCerr"
    /\ bindings[Key("error", "")].provider = "typeCerr"
    /\ bindings[Key("TypeC", "")].btype = Binding_Singleton
    /\ bindings[Key("error", "")].btype = Binding_Singleton
    /\ bindings[Key("TypeC", "")].instance # Nil
    /\ bindings[Key("error", "")].instance = Nil

-----------------------------------------------------------------------------
(* Cycles through an Instance binding *)

\* C37: with a binding for every tagged field, when a Get or a Resolve of a
\* key bound as an Instance has succeeded, every tagged field of the value
\* returned holds an object whose tagged fields of that key hold the value
\* returned: b.Alice.Bob is b.
C37_CycleClosesOnThisCall ==
    \A g \in Goroutines :
        (Closed /\ Got(g) /\ ~IsSingleton(result[g].key)) =>
            LET b == result[g].vals[1] IN
            \A i \in TaggedFields(b) :
                LET a == heap[b].f[i] IN
                \A j \in TaggedFields(a) :
                    << StructFields(heap[a].type)[j].type, "" >> = result[g].key
                        => heap[a].f[j] = b

-----------------------------------------------------------------------------
(* The resolution of a singleton that holds its instance *)

\* C38: while a goroutine stands in the resolve of a binding that holds an
\* instance, its next step calls no provider, allocates and writes nothing,
\* leaves the bindings alone, and either goes on to the mutex or returns an
\* object without error, from the mutex on the instance of the binding; and
\* no step changes a field of an object that is, and stays, the instance of
\* a binding.
C38_CachedResolveIsPure ==
    [][/\ \A g \in Goroutines :
            (/\ ~Idle(g) /\ Top(g).fn = "resolve"
             /\ Top(g).pc \in {"ctx", "lock"}
             /\ bindings[Top(g).key].btype = Binding_Singleton
             /\ bindings[Top(g).key].instance # Nil
             /\ stack'[g] # stack[g])
            => /\ invoked'[g] = invoked[g]
               /\ heap' = heap
               /\ bindings' = bindings
               /\ \/ /\ Top(g).pc = "ctx"
                     /\ stack'[g] = Callers(g) \o << [Top(g) EXCEPT !.pc = "lock"] >>
                  \/ /\ stack'[g] = Callers(g)
                     /\ ret'[g].err = NoErr /\ ret'[g].val # Nil
                     /\ Top(g).pc = "lock"
                            => ret'[g].val = bindings[Top(g).key].instance
       /\ \A k \in DOMAIN bindings :
            (/\ bindings[k].instance # Nil
             /\ k \in DOMAIN bindings'
             /\ bindings'[k].instance = bindings[k].instance)
            => heap'[bindings[k].instance] = heap[bindings[k].instance]
      ]_vars

\* a Get of Bob, bound as an Instance, has returned a Bob built in this call
\* whose Alice is the instance the binding of Alice held before: the provider
\* of Alice was not called in this operation
C38_Witness ==
    /\ Got(1) /\ result[1].key = Key("Bob", "")
    /\ IsInstance(Key("Bob", "")) /\ IsSingleton(Key("Alice", ""))
    /\ heap[result[1].vals[1]].f[1] = bindings[Key("Alice", "")].instance
    /\ \A n \in 1..Len(invoked[1]) : invoked[1][n].key # Key("Alice", "")
    /\ \E n \in 1..Len(invoked[1]) : invoked[1][n].obj = result[1].vals[1]

-----------------------------------------------------------------------------
(* The mutex of a binding *)

\* C39: the mutex of a binding is held by a goroutine only while that
\* goroutine stands in a resolve of the binding, between its Lock and its
\* return; so when an operation has ended, with a value, with an error or
\* with a panic, the goroutine holds no mutex, and a resolve that comes to
\* b.mu.Lock() while no other goroutine is in an operation finds the mutex
\* free.
C39_LockReleased ==
    /\ \A k \in DOMAIN bindings : \A g \in Goroutines :
          bindings[k].mu = g =>
              \E n \in 1..Len(stack[g]) :
                  /\ stack[g][n].fn = "resolve" /\ stack[g][n].key = k
                  /\ stack[g][n].pc \notin {"ctx", "lock"}
    /\ \A k \in DOMAIN bindings : bindings[k].mu \in Goroutines \cup {0}
    /\ \A g \in Goroutines :
          (/\ ~Idle(g) /\ Top(g).fn = "resolve" /\ Top(g).pc = "lock"
           /\ \A o \in Goroutines \ {g} : Idle(o))
          => bindings[Top(g).key].mu = 0

\* an operation has ended in a panic after the provider of a Singleton had
\* returned an object under the mutex of its binding: the binding holds no
\* instance and its mutex is free
C39_Witness ==
    /\ Idle(1) /\ result[1].status = "panic"
    /\ \E n \in 1..Len(invoked[1]) :
          /\ invoked[1][n].obj # Nil
          /\ IsSingleton(invoked[1][n].key)
          /\ bindings[invoked[1][n].key].instance = Nil
          /\ bindings[invoked[1][n].key].mu = 0

-----------------------------------------------------------------------------
(* The registry during resolution *)

\* C40: a step of a Get, a Resolve, a Fill or a Call, its first and its last
\* included, whether the operation ends well, with an error or in a panic,
\* leaves the keys of the map of bindings as they are and, under each key, the
\* provider and the kind; the instance of a binding either stays as it is or,
\* in a Singleton binding that held none, becomes an object.
C40_RegistryUntouched ==
    [][(\E g \in Goroutines :
            \/ ~Idle(g) /\ stack[g][1].fn \in {"Get", "Resolve", "Fill", "Call"}
            \/ stack'[g] # << >> /\ stack'[g][1].fn \in {"Get", "Resolve", "Fill", "Call"}
            \/ /\ result'[g] # result[g]
               /\ result'[g].op \in {"Get", "Resolve", "Fill", "Call"})
       => /\ DOMAIN bindings' = DOMAIN bindings
          /\ \A k \in DOMAIN bindings :
                /\ [bindings'[k] EXCEPT !.instance = Nil, !.mu = 0]
                     = [bindings[k] EXCEPT !.instance = Nil, !.mu = 0]
                /\ \/ bindings'[k].instance = bindings[k].instance
                   \/ /\ bindings[k].btype = Binding_Singleton
                      /\ bindings[k].instance = Nil
                      /\ bindings'[k].instance \in 1..Len(heap')
      ]_vars

\* a Get, a Resolve, a Fill or a Call has ended with an error or in a panic
\* after the provider of a binding was called under its mutex, in a registry
\* where another Singleton holds its instance
C40_Witness ==
    /\ Idle(1) /\ result[1].status \in {"error", "panic"}
    /\ result[1].op \in {"Get", "Resolve", "Fill", "Call"}
    /\ \E n \in 1..Len(invoked[1]) :
          /\ IsSingleton(invoked[1][n].key)
          /\ bindings[invoked[1][n].key].instance = Nil
    /\ \E k \in DOMAIN bindings : bindings[k].instance # Nil

====
